---- MODULE Spec2Model ----
(***************************************************************************)
(* ic-file-uploader: the parallel chunk scheduler of src/src/parallel.rs   *)
(* (upload_chunks_parallel, its worker upload_chunk_with_retry and the     *)
(* shared UploadTracker) together with the caller's handling of the result *)
(* in src/src/main.rs.                                                     *)
(*                                                                         *)
(* One coordinator thread runs the main loop; every dispatched chunk has   *)
(* one worker thread.  Each action is one critical section on a mutex or   *)
(* one blocking step (a transfer call, a sleep) together with the          *)
(* thread-local statements around it.                                      *)
(***************************************************************************)
EXTENDS Integers, Sequences, FiniteSets, TLC

\* ------------------------------------------------------------------ bounds
MaxChunks == 3
MaxConcurrentBound == 2
MaxRetriesBound == 2
MaxElapsed == 1
MaxRuns == 2
MaxDataLen == 3
MaxChunkSize == 2
MaxTextLen == 3

\* ------------------------------------------------------- program constants
\* usize arithmetic.  The target's usize is 64 bits wide; TLC's integers are
\* 32 bits wide, so the wrap-around is modelled at 16 bits.  Every comparison
\* the scheduler makes on the counter (>= max_concurrent, == 0) is the same
\* for any width whose maximum exceeds MaxConcurrentBound + 2 * MaxChunks.
UsizeModulus == 2 ^ 16

\* size of a full chunk and of the final (remainder) chunk, in rate units
FullChunkSize == 2
LastChunkSize == 1

\* config.target_rate_mibs values explored, in chunk-size units per tick
TargetRates == {1}

NoChunk == 0 - 1
\* holders of a mutex other than a worker (workers are named by chunk ID)
MutexFree == 0 - 1
CoordThread == 0 - 2
NoExit == 0 - 1
PanicExit == 101

VARIABLES
    \* ---- inputs of upload_chunks_parallel
    chunks,             \* Vec<ChunkInfo> argument: the chunk IDs, in order
    max_concurrent,     \* config.max_concurrent
    max_retries,        \* config.max_retries
    target_rate_mibs,   \* config.target_rate_mibs
    overflow_checks,    \* build profile: TRUE = overflow panics, FALSE = wraps
    \* ---- UploadTracker behind Arc<Mutex<..>>
    bytes_uploaded,
    active_uploads,
    completed_chunks,
    poisoned,           \* the tracker mutex was held by a thread that panicked
    elapsed,            \* start_time.elapsed(), in ticks
    \* ---- coordinator (upload_chunks_parallel) locals
    cpc,
    chunks_remaining,
    next_chunk,
    handles,
    scan,               \* position of the is_finished() scan
    completed_handles,
    successful_chunks,
    failed_chunks,
    delay,
    \* ---- worker threads (upload_chunk_with_retry), one per chunk ID
    wpc,
    attempts,
    \* ---- what the process leaves behind
    result,             \* value handed back to the caller
    exit_code,
    manifest,           \* contents of <file>.failed_chunks
    printed,            \* resume / retry instructions main has printed
    \* ---- sequential uploader (lib.rs upload_chunks_with_resume)
    start_from_chunk,   \* argument start_from_chunk
    auto_resume,        \* config.auto_resume
    progress_callback,  \* config.progress_callback is Some
    spc,                \* position of the sequential run
    relative_index,     \* loop variable of upload_chunks_with_resume
    seq_attempts,       \* attempts of upload_chunk_with_config
    seq_result,         \* ChunkUploadResult returned
    run,                \* number of the invocation (1 = first, 2 = resumed)
    \* ---- chunk preparation (split_into_chunks, chunks_to_chunk_info, main's filter)
    data,               \* the file's bytes
    chunk_size,         \* argument chunk_size of split_into_chunks
    start_ind,          \* argument start_ind (args.offset)
    chunk_offset,       \* args.chunk_offset
    retry_file,         \* args.retry_chunks_file and the text of that file
    ppc,                \* position of the preparation
    model_chunks,       \* Vec<Vec<u8>> returned by split_into_chunks
    chunk_infos,        \* Vec<ChunkInfo> returned by chunks_to_chunk_info
    retry_ids,          \* chunk IDs parsed from the retry file
    chunks_to_upload,   \* Vec<ChunkInfo> handed to upload_chunks_parallel
    prep_error,         \* Err returned by main before any upload
    \* ---- admission decision (UploadTracker::should_start_upload)
    apc,
    admitted,           \* value returned by should_start_upload
    \* ---- the two mutexes, with acquire and release as steps of their own
    tracker_mutex,      \* thread holding the guard of Arc<Mutex<UploadTracker>>
    pool_mutex,         \* thread holding the guard of chunks_remaining
    rate_callback,      \* config.rate_callback is Some
    \* ---- two sessions side by side: hooks installed, hooks absent
    hook_mode,          \* "sequential" or "parallel" ("idle": not compared)
    transfer_ok,        \* per chunk: result of its 1st, 2nd, ... transfer call
    run_pc,             \* per session: position of the main thread
    run_index,          \* per session: relative_index of the sequential loop
    run_wpc,            \* per session, per chunk: position of its upload
    run_attempts,       \* per session, per chunk: attempts
    run_log,            \* per session, per chunk: results of the calls made
    run_successful,     \* per session: successful_chunks
    run_failed,         \* per session: keys of failed_chunks
    run_outcome,        \* per session: result returned or exit status
    \* ---- history (not program state)
    starts,             \* start_from_chunk of each invocation so far
    transfers,          \* sequential transfer calls returned: <<run, index, ok>>
    in_call,            \* chunk indices with a transfer call in progress
    hook_calls,         \* invocations of the progress callback
    tracker_created,    \* UploadTracker::new() has run
    incs,               \* per chunk: increments of active_uploads applied
    decs,               \* per chunk: decrements of active_uploads applied
    broke_by            \* which break left the main loop

cfg == <<chunks, max_concurrent, max_retries, target_rate_mibs, overflow_checks>>
tracker == <<bytes_uploaded, active_uploads, completed_chunks, poisoned>>
coord == <<cpc, chunks_remaining, next_chunk, handles, scan, completed_handles,
           successful_chunks, failed_chunks, delay>>
workers == <<wpc, attempts>>
outcome == <<result, exit_code, manifest>>
history == <<incs, decs, broke_by>>
seq == <<start_from_chunk, auto_resume, progress_callback, spc, relative_index,
         seq_attempts, seq_result, run, starts, transfers, in_call, hook_calls>>
prep == <<data, chunk_size, start_ind, chunk_offset, retry_file, ppc, model_chunks,
          chunk_infos, retry_ids, chunks_to_upload, prep_error>>
adm == <<apc, admitted>>
lck == <<tracker_mutex, pool_mutex, rate_callback>>
hk == <<hook_mode, transfer_ok, run_pc, run_index, run_wpc, run_attempts, run_log,
        run_successful, run_failed, run_outcome>>
side == <<prep, adm, lck, hk>>
vars == <<cfg, tracker, elapsed, coord, workers, outcome, history, seq,
          tracker_created, printed, side>>

\* ----------------------------------------------------------------- helpers
AllIds == 0 .. (MaxChunks - 1)

RangeOf(s) == {s[i] : i \in 1 .. Len(s)}

\* ChunkInfo.size of the chunk with this ID (every chunk full but the last)
SizeOf(id) == IF id = Len(chunks) - 1 THEN LastChunkSize ELSE FullChunkSize

total_chunks_expected == Len(chunks)

\* threads spawned and not yet finished
InFlight ==
    {id \in AllIds : wpc[id] \in {"calling", "returning_ok", "returning_err", "panicking"}}

IsFinished(id) == wpc[id] \in {"fin_ok", "fin_err", "fin_panic"}

ProcessAlive == cpc \notin {"exited", "panicked"}

\* rationals as <<numerator, denominator>>, denominator > 0
RatLess(a, b) == a[1] * b[2] < b[1] * a[2]

\* usize arithmetic: <<new value, panicked>>.  With overflow checks (the dev
\* profile) an overflowing operation panics and stores nothing; without them
\* (the release profile) it wraps.
UsizeDec(v) ==
    IF v >= 1 THEN <<v - 1, FALSE>>
    ELSE IF overflow_checks THEN <<v, TRUE>>
    ELSE <<(v - 1) % UsizeModulus, FALSE>>

UsizeInc(v) ==
    IF v + 1 < UsizeModulus THEN <<v + 1, FALSE>>
    ELSE IF overflow_checks THEN <<v, TRUE>>
    ELSE <<(v + 1) % UsizeModulus, FALSE>>

\* ParallelUploadResult
NoResult == [kind |-> "None", successful |-> <<>>, failed |-> <<>>, reason |-> ""]
Failed(reason) == [kind |-> "Failed", successful |-> <<>>, failed |-> <<>>, reason |-> reason]

\* HashMap::insert
MapInsert(m, k, v) == [x \in (DOMAIN m) \cup {k} |-> IF x = k THEN v ELSE m[x]]

\* Vec::remove
SeqRemove(s, i) == [j \in 1 .. (Len(s) - 1) |-> IF j < i THEN s[j] ELSE s[j + 1]]

\* ----------------------------------------------------------- UploadTracker
current_rate_mibs ==
    IF elapsed > 0 THEN <<bytes_uploaded, elapsed>> ELSE <<0, 1>>

should_start_upload_by_rate_only ==
    IF active_uploads >= max_concurrent THEN FALSE
    ELSE RatLess(current_rate_mibs, <<target_rate_mibs, 1>>)

should_start_upload ==
    IF active_uploads >= max_concurrent THEN FALSE
    ELSE RatLess(current_rate_mibs, <<target_rate_mibs, 1>>) \/ active_uploads = 0

calculate_delay ==
    IF RatLess(<<target_rate_mibs, 1>>, current_rate_mibs) THEN 100 ELSE 10

\* ChunkUploadResult
NoSeqResult == [kind |-> "None", failed_at_chunk |-> 0, error |-> ""]
SeqSuccess == [kind |-> "Success", failed_at_chunk |-> 0, error |-> ""]
SeqFailed(e) == [kind |-> "Failed", failed_at_chunk |-> 0, error |-> e]
Interrupted(i, e) == [kind |-> "Interrupted", failed_at_chunk |-> i, error |-> e]

\* the sequential uploader is not running (parallel mode)
SeqIdle ==
    /\ start_from_chunk = 0
    /\ auto_resume = FALSE
    /\ progress_callback = FALSE
    /\ spc = "idle"
    /\ relative_index = 0
    /\ seq_attempts = 0
    /\ seq_result = NoSeqResult
    /\ run = 1
    /\ starts = <<>>
    /\ transfers = <<>>
    /\ in_call = {}
    /\ hook_calls = 0

\* no pair of sessions is being compared
HookIdle ==
    /\ hook_mode = "idle"
    /\ transfer_ok = <<>>
    /\ run_pc = <<>>
    /\ run_index = <<>>
    /\ run_wpc = <<>>
    /\ run_attempts = <<>>
    /\ run_log = <<>>
    /\ run_successful = <<>>
    /\ run_failed = <<>>
    /\ run_outcome = <<>>

\* no file is being prepared and no admission decision is being computed
\* on its own
SideIdle ==
    /\ data = <<>>
    /\ chunk_size = 1
    /\ start_ind = 0
    /\ chunk_offset = 0
    /\ retry_file = [given |-> FALSE, readable |-> FALSE, text |-> <<>>]
    /\ ppc = "idle"
    /\ model_chunks = <<>>
    /\ chunk_infos = <<>>
    /\ retry_ids = <<>>
    /\ chunks_to_upload = <<>>
    /\ prep_error = ""
    /\ apc = "idle"
    /\ admitted = FALSE
    /\ tracker_mutex = MutexFree
    /\ pool_mutex = MutexFree
    /\ rate_callback = FALSE
    /\ HookIdle

\* -------------------------------------------------------------------- Init
Init ==
    /\ SeqIdle
    /\ SideIdle
    /\ tracker_created = FALSE
    /\ printed = {}
    /\ \E n \in 0 .. MaxChunks : chunks = [i \in 1 .. n |-> i - 1]
    /\ max_concurrent \in 0 .. MaxConcurrentBound
    /\ max_retries \in 0 .. MaxRetriesBound
    /\ target_rate_mibs \in TargetRates
    /\ overflow_checks \in BOOLEAN
    /\ bytes_uploaded = 0
    /\ active_uploads = 0
    /\ completed_chunks = <<>>
    /\ poisoned = FALSE
    /\ elapsed = 0
    /\ cpc = "entry"
    /\ chunks_remaining = <<>>
    /\ next_chunk = NoChunk
    /\ handles = <<>>
    /\ scan = 0
    /\ completed_handles = <<>>
    /\ successful_chunks = <<>>
    /\ failed_chunks = <<>>
    /\ delay = 0
    /\ wpc = [id \in AllIds |-> "unspawned"]
    /\ attempts = [id \in AllIds |-> 0]
    /\ result = NoResult
    /\ exit_code = NoExit
    /\ manifest = [written |-> FALSE, ids |-> <<>>]
    /\ incs = [id \in AllIds |-> 0]
    /\ decs = [id \in AllIds |-> 0]
    /\ broke_by = "none"

\* ------------------------------------------------ coordinator: main thread
\* a panic of the main thread ends the process with status 101
CoordPanics ==
    /\ cpc' = "panicked"
    /\ exit_code' = PanicExit

\* the is_finished() scan and the reaping loop are skipped when they have
\* nothing to visit
AfterAdmission(h) == IF Len(h) = 0 THEN "delay" ELSE "poll"

NoChunksNever == FALSE

\* parallel.rs 276: chunks.is_empty()
NoChunks == Len(chunks) = 0

\* parallel.rs 276-292: the empty-input check and the session set-up
CoordEntry ==
    /\ cpc = "entry"
    /\ IF NoChunks
       THEN /\ result' = Failed("No chunks to upload")
            /\ cpc' = "returned"
            /\ UNCHANGED <<chunks_remaining, tracker_created>>
       ELSE /\ chunks_remaining' = chunks
            /\ tracker_created' = TRUE
            /\ cpc' = "check"
            /\ UNCHANGED result
    /\ UNCHANGED <<cfg, side, seq, printed, tracker, elapsed, next_chunk, handles, scan, completed_handles,
                   successful_chunks, failed_chunks, delay, workers, exit_code,
                   manifest, history>>

SpawnRightAfterPop == "spawn"

\* parallel.rs 309-314: with a chunk popped, the increment of active_uploads
\* is the coordinator's next step
AfterPopStep == "inc"

PoppedFromFront(pool) == pool[1]

\* parallel.rs 305-306: Vec::pop returns the last element
Popped(pool) == pool[Len(pool)]

AfterPopKeepsLast(pool) == pool

\* parallel.rs 305: Vec::pop removes the element it returns
AfterPop(pool) == SubSeq(pool, 1, Len(pool) - 1)

\* parallel.rs 297-307: the admission check under the tracker mutex, then
\* Vec::pop on the pool (the last element first)
CoordCheck ==
    /\ cpc = "check"
    /\ IF poisoned
       THEN /\ CoordPanics
            /\ UNCHANGED <<chunks_remaining, next_chunk, scan, completed_handles>>
       ELSE /\ UNCHANGED exit_code
            /\ IF should_start_upload /\ Len(chunks_remaining) > 0
               THEN /\ next_chunk' = Popped(chunks_remaining)
                    /\ chunks_remaining' = AfterPop(chunks_remaining)
                    /\ cpc' = AfterPopStep
                    /\ UNCHANGED <<scan, completed_handles>>
               ELSE /\ cpc' = AfterAdmission(handles)
                    /\ scan' = IF Len(handles) = 0 THEN 0 ELSE 1
                    /\ completed_handles' = <<>>
                    /\ UNCHANGED <<chunks_remaining, next_chunk>>
    /\ UNCHANGED <<cfg, side, seq, tracker_created, printed, tracker, elapsed, handles, successful_chunks, failed_chunks,
                   delay, workers, result, manifest, history>>

\* parallel.rs 311-314: active_uploads += 1 under the tracker mutex
CoordInc ==
    /\ cpc = "inc"
    /\ IF poisoned \/ UsizeInc(active_uploads)[2]
       THEN /\ CoordPanics
            /\ UNCHANGED <<active_uploads, incs>>
       ELSE /\ active_uploads' = UsizeInc(active_uploads)[1]
            /\ incs' = [incs EXCEPT ![next_chunk] = @ + 1]
            /\ cpc' = "spawn"
            /\ UNCHANGED exit_code
    /\ UNCHANGED <<cfg, side, seq, tracker_created, printed, bytes_uploaded, completed_chunks, poisoned, elapsed,
                   chunks_remaining, next_chunk, handles, scan, completed_handles,
                   successful_chunks, failed_chunks, delay, workers, result, manifest,
                   decs, broke_by>>

\* parallel.rs 317-339: thread::spawn of the worker (which enters its loop
\* with attempts = 1) and handles.push
CoordSpawn ==
    /\ cpc = "spawn"
    /\ wpc' = [wpc EXCEPT ![next_chunk] = "calling"]
    /\ attempts' = [attempts EXCEPT ![next_chunk] = 1]
    /\ handles' = Append(handles, next_chunk)
    /\ next_chunk' = NoChunk
    /\ cpc' = "poll"
    /\ scan' = 1
    /\ completed_handles' = <<>>
    /\ UNCHANGED <<cfg, side, seq, tracker_created, printed, tracker, elapsed, chunks_remaining, successful_chunks,
                   failed_chunks, delay, outcome, history>>

\* parallel.rs 344-349: one is_finished() poll of the scan over handles (the
\* loop index is kept only while the scan runs)
CoordPoll ==
    /\ cpc = "poll"
    /\ scan <= Len(handles)
    /\ LET done == IF IsFinished(handles[scan])
                   THEN Append(completed_handles, <<scan, handles[scan]>>)
                   ELSE completed_handles
       IN /\ completed_handles' = done
          /\ scan' = IF scan < Len(handles) THEN scan + 1 ELSE 0
          /\ cpc' = IF scan < Len(handles) THEN "poll"
                    ELSE IF Len(done) > 0 THEN "reap" ELSE "delay"
    /\ UNCHANGED <<cfg, side, seq, tracker_created, printed, tracker, elapsed, chunks_remaining, next_chunk, handles,
                   successful_chunks, failed_chunks, delay, workers, outcome, history>>

\* JoinHandle::join of a finished worker: what the coordinator records
JoinFailure(id) ==
    IF wpc[id] = "fin_err"
    THEN [error |-> "failed after attempts", attempts |-> attempts[id]]
    ELSE [error |-> "Thread panic", attempts |-> 0]

\* parallel.rs 352-372: reap one finished worker (highest index first):
\* handles.remove, active_uploads -= 1 under the tracker mutex, join, record
CoordReap ==
    /\ cpc = "reap"
    /\ Len(completed_handles) > 0
    /\ LET entry == completed_handles[Len(completed_handles)]
           index == entry[1]
           chunk_id == entry[2]
           dec == UsizeDec(active_uploads)
           rest == SubSeq(completed_handles, 1, Len(completed_handles) - 1)
       IN /\ handles' = SeqRemove(handles, index)
          /\ IF poisoned \/ dec[2]
             THEN /\ CoordPanics
                  /\ UNCHANGED <<active_uploads, decs, successful_chunks, failed_chunks,
                                 completed_handles>>
             ELSE /\ active_uploads' = dec[1]
                  /\ decs' = [decs EXCEPT ![chunk_id] = @ + 1]
                  /\ IF wpc[chunk_id] = "fin_ok"
                     THEN /\ successful_chunks' = Append(successful_chunks, chunk_id)
                          /\ UNCHANGED failed_chunks
                     ELSE /\ failed_chunks' = MapInsert(failed_chunks, chunk_id, JoinFailure(chunk_id))
                          /\ UNCHANGED successful_chunks
                  /\ completed_handles' = rest
                  /\ cpc' = IF Len(rest) > 0 THEN "reap" ELSE "delay"
                  /\ UNCHANGED exit_code
    /\ UNCHANGED <<cfg, side, seq, tracker_created, printed, bytes_uploaded, completed_chunks, poisoned, elapsed,
                   chunks_remaining, next_chunk, scan, delay, workers, result, manifest,
                   incs, broke_by>>

\* parallel.rs 375-381: rate callback and calculate_delay under the tracker mutex
CoordDelay ==
    /\ cpc = "delay"
    /\ IF poisoned
       THEN /\ CoordPanics
            /\ UNCHANGED delay
       ELSE /\ delay' = calculate_delay
            /\ cpc' = "sleep"
            /\ UNCHANGED exit_code
    /\ UNCHANGED <<cfg, side, seq, tracker_created, printed, tracker, elapsed, chunks_remaining, next_chunk, handles, scan,
                   completed_handles, successful_chunks, failed_chunks, workers, result,
                   manifest, history>>

\* parallel.rs 383: thread::sleep(delay) returns; delay is not used again
CoordSleep ==
    /\ cpc = "sleep"
    /\ cpc' = "done_check"
    /\ delay' = 0
    /\ UNCHANGED <<cfg, side, seq, tracker_created, printed, tracker, elapsed, chunks_remaining, next_chunk, handles, scan,
                   completed_handles, successful_chunks, failed_chunks, workers,
                   outcome, history>>

\* parallel.rs 398: the secondary break
NothingLeftIgnoringHandles(chunks_empty, no_active) == chunks_empty /\ no_active

NothingLeft(chunks_empty, no_active) ==
    chunks_empty /\ no_active /\ Len(handles) = 0

\* parallel.rs 386-400: the two termination checks
CoordDoneCheck ==
    /\ cpc = "done_check"
    /\ IF poisoned
       THEN /\ CoordPanics
            /\ UNCHANGED broke_by
       ELSE LET chunks_empty == Len(chunks_remaining) = 0
                no_active == active_uploads = 0
                total_completed == Len(successful_chunks) + Cardinality(DOMAIN failed_chunks)
            IN /\ UNCHANGED exit_code
               /\ IF total_completed >= total_chunks_expected
                  THEN cpc' = "report" /\ broke_by' = "all_accounted"
                  ELSE IF NothingLeft(chunks_empty, no_active)
                       THEN cpc' = "report" /\ broke_by' = "nothing_left"
                       ELSE cpc' = "check" /\ UNCHANGED broke_by
    /\ UNCHANGED <<cfg, side, seq, tracker_created, printed, tracker, elapsed, chunks_remaining, next_chunk, handles, scan,
                   completed_handles, successful_chunks, failed_chunks, delay, workers,
                   result, manifest, incs, decs>>

\* parallel.rs 413-424: the status every branch passes to std::process::exit
ExitStatus(successful, failed) ==
    IF DOMAIN failed = {} THEN 0
    ELSE IF Len(successful) = 0 THEN 1
    ELSE 1

\* parallel.rs 403-425: the final rate report under the tracker mutex, then
\* std::process::exit in every branch: the function does not return
CoordFinish ==
    /\ cpc = "report"
    /\ IF poisoned
       THEN CoordPanics
       ELSE /\ exit_code' = ExitStatus(successful_chunks, failed_chunks)
            /\ cpc' = "exited"
    /\ UNCHANGED <<cfg, side, seq, tracker_created, printed, tracker, elapsed, chunks_remaining, next_chunk, handles, scan,
                   completed_handles, successful_chunks, failed_chunks, delay, workers,
                   result, manifest, history>>

\* the orders in which HashMap::keys may yield a key set
RECURSIVE Orders(_)
Orders(S) ==
    IF S = {} THEN {<<>>}
    ELSE UNION {{<<x>> \o t : t \in Orders(S \ {x})} : x \in S}

\* main.rs 196-234: the caller's match on the returned ParallelUploadResult;
\* main returning Err ends the process with status 1
MainMatch ==
    /\ cpc = "returned"
    /\ cpc' = "exited"
    /\ IF result.kind = "Success"
       THEN exit_code' = 0 /\ UNCHANGED <<manifest, printed>>
       ELSE IF result.kind = "PartialFailure"
            THEN /\ \E failed_ids \in Orders(DOMAIN result.failed) :
                        manifest' = [written |-> TRUE, ids |-> failed_ids]
                 /\ printed' = printed \cup {"retry command"}
                 /\ exit_code' = 1
            ELSE exit_code' = 1 /\ UNCHANGED <<manifest, printed>>
    /\ UNCHANGED <<cfg, side, seq, tracker_created, tracker, elapsed, chunks_remaining, next_chunk, handles, scan,
                   completed_handles, successful_chunks, failed_chunks, delay, workers,
                   result, history>>

\* --------------------------------------- workers: upload_chunk_with_retry
BytesAfterOkUnchanged(id) == bytes_uploaded

\* parallel.rs 175: tracker.bytes_uploaded += chunk.size
BytesAfterOk(id) == bytes_uploaded + SizeOf(id)

\* parallel.rs 168-179: the transfer call returns Ok; the tracker is updated
\* under its mutex (bytes, completed list, then the counter)
WorkerTransferOk(id) ==
    /\ ProcessAlive
    /\ wpc[id] = "calling"
    /\ IF poisoned
       THEN /\ wpc' = [wpc EXCEPT ![id] = "panicking"]
            /\ UNCHANGED <<tracker, decs>>
       ELSE LET dec == UsizeDec(active_uploads)
            IN /\ bytes_uploaded' = BytesAfterOk(id)
               /\ completed_chunks' = Append(completed_chunks, id)
               /\ IF dec[2]
                  THEN /\ poisoned' = TRUE
                       /\ wpc' = [wpc EXCEPT ![id] = "panicking"]
                       /\ UNCHANGED <<active_uploads, decs>>
                  ELSE /\ active_uploads' = dec[1]
                       /\ decs' = [decs EXCEPT ![id] = @ + 1]
                       /\ wpc' = [wpc EXCEPT ![id] = "returning_ok"]
                       /\ UNCHANGED poisoned
    /\ UNCHANGED <<cfg, side, seq, tracker_created, printed, elapsed, coord, attempts, outcome, incs, broke_by>>

\* parallel.rs 168, 181-203: the transfer call returns Err; either the
\* retries are exhausted (counter decremented under the mutex, Err returned)
\* or the worker sleeps and loops with attempts += 1
WorkerTransferErr(id) ==
    /\ ProcessAlive
    /\ wpc[id] = "calling"
    /\ IF attempts[id] >= max_retries
       THEN /\ UNCHANGED attempts
            /\ IF poisoned
               THEN /\ wpc' = [wpc EXCEPT ![id] = "panicking"]
                    /\ UNCHANGED <<tracker, decs>>
               ELSE LET dec == UsizeDec(active_uploads)
                    IN IF dec[2]
                       THEN /\ poisoned' = TRUE
                            /\ wpc' = [wpc EXCEPT ![id] = "panicking"]
                            /\ UNCHANGED <<bytes_uploaded, active_uploads,
                                           completed_chunks, decs>>
                       ELSE /\ active_uploads' = dec[1]
                            /\ decs' = [decs EXCEPT ![id] = @ + 1]
                            /\ wpc' = [wpc EXCEPT ![id] = "returning_err"]
                            /\ UNCHANGED <<bytes_uploaded, completed_chunks, poisoned>>
       ELSE /\ attempts' = [attempts EXCEPT ![id] = @ + 1]
            /\ UNCHANGED <<tracker, wpc, decs>>
    /\ UNCHANGED <<cfg, side, seq, tracker_created, printed, elapsed, coord, outcome, incs, broke_by>>

\* parallel.rs 194-200, 250-252 (main.rs 79-81): the progress callback
\* panics (println! on a closed stdout) while the worker holds no lock
WorkerPanic(id) ==
    /\ ProcessAlive
    /\ wpc[id] = "calling"
    /\ wpc' = [wpc EXCEPT ![id] = "panicking"]
    /\ UNCHANGED <<cfg, side, seq, tracker_created, printed, tracker, elapsed, coord, attempts, outcome, history>>

\* the worker's closure has returned or unwound: is_finished() turns true
WorkerExit(id) ==
    /\ ProcessAlive
    /\ wpc[id] \in {"returning_ok", "returning_err", "panicking"}
    /\ wpc' = [wpc EXCEPT ![id] =
                  IF @ = "returning_ok" THEN "fin_ok"
                  ELSE IF @ = "returning_err" THEN "fin_err" ELSE "fin_panic"]
    /\ UNCHANGED <<cfg, side, seq, tracker_created, printed, tracker, elapsed, coord, attempts, outcome, history>>

\* -------------------------------------------------------------------- time
\* parallel.rs 97: the clock start_time.elapsed() reads advances
Tick ==
    /\ cpc \notin {"entry", "returned", "exited", "panicked"}
    /\ elapsed < MaxElapsed
    /\ elapsed' = elapsed + 1
    /\ UNCHANGED <<cfg, side, seq, tracker_created, printed, tracker, coord, workers, outcome, history>>

\* ----------------------------------------------------------- specification
Next ==
    \/ CoordEntry
    \/ CoordCheck
    \/ CoordInc
    \/ CoordSpawn
    \/ CoordPoll
    \/ CoordReap
    \/ CoordDelay
    \/ CoordSleep
    \/ CoordDoneCheck
    \/ CoordFinish
    \/ MainMatch
    \/ \E id \in AllIds : WorkerTransferOk(id)
    \/ \E id \in AllIds : WorkerTransferErr(id)
    \/ \E id \in AllIds : WorkerPanic(id)
    \/ \E id \in AllIds : WorkerExit(id)
    \/ Tick

Spec == Init /\ [][Next]_vars

\* ============================================== sequential mode (lib.rs)
\* main.rs 236-247: sequential mode calls upload_chunks_with_resume with
\* args.chunk_offset; the parallel scheduler is never entered
SeqInit ==
    /\ SideIdle
    /\ \E n \in 0 .. MaxChunks : chunks = [i \in 1 .. n |-> i - 1]
    /\ max_concurrent = 1
    /\ max_retries \in 0 .. MaxRetriesBound
    /\ target_rate_mibs \in TargetRates
    /\ overflow_checks = FALSE
    /\ bytes_uploaded = 0
    /\ active_uploads = 0
    /\ completed_chunks = <<>>
    /\ poisoned = FALSE
    /\ elapsed = 0
    /\ cpc = "sequential"
    /\ chunks_remaining = <<>>
    /\ next_chunk = NoChunk
    /\ handles = <<>>
    /\ scan = 0
    /\ completed_handles = <<>>
    /\ successful_chunks = <<>>
    /\ failed_chunks = <<>>
    /\ delay = 0
    /\ wpc = [id \in AllIds |-> "unspawned"]
    /\ attempts = [id \in AllIds |-> 0]
    /\ result = NoResult
    /\ exit_code = NoExit
    /\ manifest = [written |-> FALSE, ids |-> <<>>]
    /\ incs = [id \in AllIds |-> 0]
    /\ decs = [id \in AllIds |-> 0]
    /\ broke_by = "none"
    /\ tracker_created = FALSE
    /\ printed = {}
    /\ start_from_chunk \in 0 .. MaxChunks
    /\ auto_resume \in BOOLEAN
    /\ progress_callback \in BOOLEAN
    /\ spc = "entry"
    /\ relative_index = 0
    /\ seq_attempts = 0
    /\ seq_result = NoSeqResult
    /\ run = 1
    /\ starts = <<start_from_chunk>>
    /\ transfers = <<>>
    /\ in_call = {}
    /\ hook_calls = 0

StartBeyondEnd == start_from_chunk > Len(chunks)

\* lib.rs 290: start_from_chunk >= chunks.len()
StartRejected == start_from_chunk >= Len(chunks)

FirstIndexPastStart == start_from_chunk + 1

\* lib.rs 294: .enumerate().skip(start_from_chunk)
FirstIndex == start_from_chunk

\* lib.rs 286-294: the two input checks, then the loop is entered
SeqEntry ==
    /\ spc = "entry"
    /\ IF Len(chunks) = 0
       THEN /\ seq_result' = SeqFailed("No chunks to upload")
            /\ spc' = "returned"
            /\ UNCHANGED relative_index
       ELSE IF StartRejected
            THEN /\ seq_result' = SeqFailed("Start chunk index exceeds total chunks")
                 /\ spc' = "returned"
                 /\ UNCHANGED relative_index
            ELSE /\ relative_index' = FirstIndex
                 /\ spc' = "loop"
                 /\ UNCHANGED seq_result
    /\ UNCHANGED <<cfg, side, tracker, elapsed, coord, workers, outcome, history,
                   tracker_created, printed, start_from_chunk, auto_resume,
                   progress_callback, seq_attempts, run, starts, transfers,
                   in_call, hook_calls>>

\* lib.rs 294-295, 310 and 216: the for loop takes the next chunk and enters
\* upload_chunk_with_config with attempts = 0, or is exhausted and Success
\* is returned
SeqLoop ==
    /\ spc = "loop"
    /\ IF relative_index >= Len(chunks)
       THEN /\ seq_result' = SeqSuccess
            /\ spc' = "returned"
            /\ UNCHANGED seq_attempts
       ELSE /\ seq_attempts' = 0
            /\ spc' = "attempt"
            /\ UNCHANGED seq_result
    /\ UNCHANGED <<cfg, side, tracker, elapsed, coord, workers, outcome, history,
                   tracker_created, printed, start_from_chunk, auto_resume,
                   progress_callback, relative_index, run, starts, transfers,
                   in_call, hook_calls>>

\* lib.rs 220-231: attempts += 1 and the call of upload_chunk
SeqAttempt ==
    /\ spc = "attempt"
    /\ seq_attempts' = seq_attempts + 1
    /\ in_call' = in_call \cup {relative_index}
    /\ spc' = "calling"
    /\ UNCHANGED <<cfg, side, tracker, elapsed, coord, workers, outcome, history,
                   tracker_created, printed, start_from_chunk, auto_resume,
                   progress_callback, relative_index, seq_result, run, starts,
                   transfers, hook_calls>>

NextIndexSkips(i) == i + 2

\* lib.rs 294: enumerate() advances by one
NextIndex(i) == i + 1

\* lib.rs 232-242 and 296: upload_chunk returned Ok; the progress callback
\* is called if there is one, Ok is returned and the loop continues
SeqTransferOk ==
    /\ spc = "calling"
    /\ transfers' = Append(transfers, <<run, relative_index, TRUE>>)
    /\ in_call' = in_call \ {relative_index}
    /\ hook_calls' = IF progress_callback THEN hook_calls + 1 ELSE hook_calls
    /\ relative_index' = NextIndex(relative_index)
    /\ spc' = "loop"
    /\ UNCHANGED <<cfg, side, tracker, elapsed, coord, workers, outcome, history,
                   tracker_created, printed, start_from_chunk, auto_resume,
                   progress_callback, seq_attempts, seq_result, run, starts>>

max_attempts_of_config == max_retries

\* lib.rs 217: max_attempts
max_attempts == IF auto_resume THEN max_retries ELSE 1

AlwaysFailed(i, e) == SeqFailed(e)

\* lib.rs 297-306: the result of the run when a chunk could not be uploaded
ChunkErrResult(i, e) == IF auto_resume THEN Interrupted(i, e) ELSE SeqFailed(e)

\* lib.rs 243-260 and 297-306: upload_chunk returned Err; either the attempts
\* are used up (Err returned, the run ends) or the callback is told, the
\* thread sleeps retry_delay_ms and the loop makes another attempt
SeqTransferErr ==
    /\ spc = "calling"
    /\ transfers' = Append(transfers, <<run, relative_index, FALSE>>)
    /\ in_call' = in_call \ {relative_index}
    /\ IF seq_attempts >= max_attempts
       THEN /\ seq_result' = ChunkErrResult(relative_index, "Failed to upload chunk")
            /\ spc' = "returned"
            /\ UNCHANGED hook_calls
       ELSE /\ hook_calls' = IF progress_callback THEN hook_calls + 1 ELSE hook_calls
            /\ spc' = "attempt"
            /\ UNCHANGED seq_result
    /\ UNCHANGED <<cfg, side, tracker, elapsed, coord, workers, outcome, history,
                   tracker_created, printed, start_from_chunk, auto_resume,
                   progress_callback, relative_index, seq_attempts, run, starts>>

\* main.rs 247-267: main matches on the ChunkUploadResult; Ok(()) ends the
\* process with status 0, Err with status 1; only the Interrupted arm
\* prints the command to resume
SeqMainMatch ==
    /\ spc = "returned"
    /\ exit_code' = IF seq_result.kind = "Success" THEN 0 ELSE 1
    /\ printed' = IF seq_result.kind = "Interrupted"
                  THEN printed \cup {"resume command"}
                  ELSE printed
    /\ spc' = "exited"
    /\ UNCHANGED <<cfg, side, tracker, elapsed, coord, workers, result, manifest,
                   history, tracker_created, start_from_chunk, auto_resume,
                   progress_callback, relative_index, seq_attempts, seq_result,
                   run, starts, transfers, in_call, hook_calls>>

ResumeAfter(r) == r.failed_at_chunk + 1

\* main.rs 259-264: --chunk-offset {failed_at_chunk}
ResumeFrom(r) == r.failed_at_chunk

\* main.rs 256-266 and 236-247: the caller resumes an interrupted upload with
\* a new invocation whose start_from_chunk is the reported failed_at_chunk
SeqResume ==
    /\ spc = "exited"
    /\ seq_result.kind = "Interrupted"
    /\ run < MaxRuns
    /\ run' = run + 1
    /\ start_from_chunk' = ResumeFrom(seq_result)
    /\ starts' = Append(starts, start_from_chunk')
    /\ max_retries' \in 0 .. MaxRetriesBound
    /\ auto_resume' \in BOOLEAN
    /\ seq_result' = NoSeqResult
    /\ relative_index' = 0
    /\ seq_attempts' = 0
    /\ exit_code' = NoExit
    /\ printed' = {}
    /\ spc' = "entry"
    /\ UNCHANGED <<chunks, max_concurrent, target_rate_mibs, overflow_checks,
                   side, tracker, elapsed, coord, workers, result, manifest, history,
                   tracker_created, progress_callback, transfers, in_call,
                   hook_calls>>

SeqNext ==
    \/ SeqEntry
    \/ SeqLoop
    \/ SeqAttempt
    \/ SeqTransferOk
    \/ SeqTransferErr
    \/ SeqMainMatch
    \/ SeqResume

SeqSpec == SeqInit /\ [][SeqNext]_vars

\* ============================ chunk preparation (lib.rs, parallel.rs, main.rs)
\* u8 values the file's bytes are drawn from
ByteValues == {0, 1}

\* characters the text of the retry file is drawn from
Chars == {"0", "2", ",", " "}

UsizeMax == UsizeModulus - 1

Datas == UNION {[1 .. n -> ByteValues] : n \in 0 .. MaxDataLen}
ChunkSizes == (0 .. MaxChunkSize) \cup {UsizeMax}
Texts == UNION {[1 .. n -> Chars] : n \in 0 .. MaxTextLen}

\* the scheduler and the sequential uploader have not been entered
SchedulerIdle ==
    /\ chunks = <<>>
    /\ max_concurrent = 1
    /\ max_retries = 1
    /\ target_rate_mibs \in TargetRates
    /\ bytes_uploaded = 0
    /\ active_uploads = 0
    /\ completed_chunks = <<>>
    /\ poisoned = FALSE
    /\ elapsed = 0
    /\ cpc = "idle"
    /\ chunks_remaining = <<>>
    /\ next_chunk = NoChunk
    /\ handles = <<>>
    /\ scan = 0
    /\ completed_handles = <<>>
    /\ successful_chunks = <<>>
    /\ failed_chunks = <<>>
    /\ delay = 0
    /\ wpc = [id \in AllIds |-> "unspawned"]
    /\ attempts = [id \in AllIds |-> 0]
    /\ result = NoResult
    /\ exit_code = NoExit
    /\ manifest = [written |-> FALSE, ids |-> <<>>]
    /\ incs = [id \in AllIds |-> 0]
    /\ decs = [id \in AllIds |-> 0]
    /\ broke_by = "none"
    /\ tracker_created = FALSE
    /\ printed = {}

\* main.rs 100-111: the file is read and split_into_chunks is called
PrepInit ==
    /\ SchedulerIdle
    /\ SeqIdle
    /\ overflow_checks \in BOOLEAN
    /\ data \in Datas
    /\ chunk_size \in ChunkSizes
    /\ start_ind \in 0 .. (MaxDataLen + 1)
    /\ chunk_offset = 0
    /\ retry_file = [given |-> FALSE, readable |-> FALSE, text |-> <<>>]
    /\ ppc = "split"
    /\ model_chunks = <<>>
    /\ chunk_infos = <<>>
    /\ retry_ids = <<>>
    /\ chunks_to_upload = <<>>
    /\ prep_error = ""
    /\ apc = "idle"
    /\ admitted = FALSE
    /\ tracker_mutex = MutexFree
    /\ pool_mutex = MutexFree
    /\ rate_callback = FALSE
    /\ HookIdle

Min(a, b) == IF a <= b THEN a ELSE b

\* usize addition: <<value, panicked>>
UsizeAdd(a, b) ==
    IF a + b < UsizeModulus THEN <<a + b, FALSE>>
    ELSE IF overflow_checks THEN <<a, TRUE>>
    ELSE <<(a + b) % UsizeModulus, FALSE>>

NumChunksPlusOne(len, size, start) ==
    IF start >= len THEN 0 ELSE (len - start) \div size + 1

\* lib.rs 113-114: the number of items (start_ind..data.len()).step_by(chunk_size)
\* yields
NumChunks(len, size, start) ==
    IF start >= len THEN 0 ELSE (len - start + size - 1) \div size

\* lib.rs 115-118: the map closure: <<chunk, panicked>>.  start + chunk_size
\* is a usize addition; the slice data[start..end] panics when end < start
ChunkAt(d, size, start) ==
    LET sum == UsizeAdd(start, size)
        end == Min(sum[1], Len(d))
    IN IF sum[2] \/ end < start
       THEN <<(<<>>), TRUE>>
       ELSE <<SubSeq(d, start + 1, end), FALSE>>

\* lib.rs 112-120: split_into_chunks; StepBy::new panics when the step is 0
split_into_chunks(d, size, start) ==
    IF size = 0
    THEN [panicked |-> TRUE, chunks |-> <<>>]
    ELSE LET n == NumChunks(Len(d), size, start)
             items == [i \in 1 .. n |-> ChunkAt(d, size, start + (i - 1) * size)]
         IN IF \E i \in 1 .. n : items[i][2]
            THEN [panicked |-> TRUE, chunks |-> <<>>]
            ELSE [panicked |-> FALSE, chunks |-> [i \in 1 .. n |-> items[i][1]]]

ChunkIdOneBased(i) == i

\* parallel.rs 442: chunk_id of the item enumerate() numbers i - 1
ChunkId(i) == i - 1

\* parallel.rs 437-447: chunks_to_chunk_info
chunks_to_chunk_info(cs) ==
    [i \in 1 .. Len(cs) |-> [chunk_id |-> ChunkId(i), data |-> cs[i], size |-> Len(cs[i])]]

\* main.rs 180-183: Iterator::skip
Skip(s, k) == IF k >= Len(s) THEN <<>> ELSE SubSeq(s, k + 1, Len(s))

\* str::trim on the characters drawn
RECURSIVE TrimStart(_)
TrimStart(t) == IF t # <<>> /\ Head(t) = " " THEN TrimStart(Tail(t)) ELSE t

RECURSIVE TrimEnd(_)
TrimEnd(t) ==
    IF t # <<>> /\ t[Len(t)] = " " THEN TrimEnd(SubSeq(t, 1, Len(t) - 1)) ELSE t

Trim(t) == TrimEnd(TrimStart(t))

\* str::split(','): the pieces between the commas (one piece when there is
\* no comma, the text being empty included)
RECURSIVE SplitComma(_)
SplitComma(t) ==
    IF \A i \in 1 .. Len(t) : t[i] # ","
    THEN <<t>>
    ELSE LET i == CHOOSE j \in 1 .. Len(t) :
                      t[j] = "," /\ \A m \in 1 .. (j - 1) : t[m] # ","
         IN <<SubSeq(t, 1, i - 1)>> \o SplitComma(SubSeq(t, i + 1, Len(t)))

DigitValue(c) == IF c = "0" THEN 0 ELSE 2

RECURSIVE DecimalValue(_)
DecimalValue(t) ==
    IF t = <<>> THEN 0
    ELSE DecimalValue(SubSeq(t, 1, Len(t) - 1)) * 10 + DigitValue(t[Len(t)])

\* str::parse::<u32>: <<value, is_err>>
ParseU32(t) ==
    IF t = <<>> \/ \E i \in 1 .. Len(t) : t[i] \in {",", " "}
    THEN <<0, TRUE>>
    ELSE <<DecimalValue(t), FALSE>>

\* main.rs 149-153: content.trim().split(',').map(|s| s.trim().parse::<u32>())
\* collected into a Result: [is_err, ids]
ParseRetryIds(text) ==
    LET pieces == SplitComma(Trim(text))
        parsed == [i \in 1 .. Len(pieces) |-> ParseU32(Trim(pieces[i]))]
    IN IF \E i \in 1 .. Len(pieces) : parsed[i][2]
       THEN [is_err |-> TRUE, ids |-> <<>>]
       ELSE [is_err |-> FALSE, ids |-> [i \in 1 .. Len(pieces) |-> parsed[i][1]]]

KeepUnlisted(c, ids) == c.chunk_id \notin RangeOf(ids)

\* main.rs 160: the filter closure, ids.contains(&chunk.chunk_id)
KeepChunk(c, ids) == c.chunk_id \in RangeOf(ids)

\* main.rs 158-161: into_iter().filter(..).collect()
RECURSIVE FilterChunks(_, _)
FilterChunks(infos, ids) ==
    IF infos = <<>> THEN <<>>
    ELSE (IF KeepChunk(Head(infos), ids) THEN <<Head(infos)>> ELSE <<>>)
             \o FilterChunks(Tail(infos), ids)

\* main.rs 111 and lib.rs 112-120: split_into_chunks is called; a panic of
\* the main thread ends the process with status 101
PrepSplit ==
    /\ ppc = "split"
    /\ LET r == split_into_chunks(data, chunk_size, start_ind)
       IN IF r.panicked
          THEN /\ ppc' = "panicked"
               /\ exit_code' = PanicExit
               /\ UNCHANGED model_chunks
          ELSE /\ model_chunks' = r.chunks
               /\ ppc' = "convert"
               /\ UNCHANGED exit_code
    /\ UNCHANGED <<cfg, tracker, elapsed, coord, workers, result, manifest, history,
                   seq, tracker_created, printed, adm, lck, hk, data, chunk_size, start_ind,
                   chunk_offset, retry_file, chunk_infos, retry_ids,
                   chunks_to_upload, prep_error>>

\* main.rs 142 and parallel.rs 437-447: chunks_to_chunk_info(&model_chunks)
PrepConvert ==
    /\ ppc = "convert"
    /\ chunk_infos' = chunks_to_chunk_info(model_chunks)
    /\ ppc' = "filter"
    /\ UNCHANGED <<cfg, tracker, elapsed, coord, workers, outcome, history, seq,
                   tracker_created, printed, adm, lck, hk, data, chunk_size, start_ind,
                   chunk_offset, retry_file, model_chunks, retry_ids,
                   chunks_to_upload, prep_error>>

\* main.rs 178-188: no retry file: the first chunk_offset entries are skipped;
\* main returns Err (status 1) when nothing is left
PrepFilterOffset ==
    /\ ppc = "filter"
    /\ \E k \in 0 .. (MaxDataLen + 1) :
          /\ chunk_offset' = k
          /\ chunks_to_upload' = Skip(chunk_infos, k)
    /\ IF chunks_to_upload' = <<>>
       THEN /\ prep_error' = "No chunks to upload after applying chunk offset"
            /\ exit_code' = 1
            /\ ppc' = "error"
       ELSE /\ ppc' = "ready"
            /\ UNCHANGED <<prep_error, exit_code>>
    /\ UNCHANGED <<cfg, tracker, elapsed, coord, workers, result, manifest, history,
                   seq, tracker_created, printed, adm, lck, hk, data, chunk_size, start_ind,
                   retry_file, model_chunks, chunk_infos, retry_ids>>

\* main.rs 145-176 and 186-188: a retry file is given: it is read, its text
\* parsed into chunk IDs and the ChunkInfos filtered by them; main returns
\* Err (status 1) when the file cannot be read, an ID cannot be parsed or
\* nothing is left
PrepFilterRetry ==
    /\ ppc = "filter"
    /\ \E readable \in BOOLEAN :
       \E text \in (IF readable THEN Texts ELSE {<<>>}) :
          /\ retry_file' = [given |-> TRUE, readable |-> readable, text |-> text]
          /\ IF ~readable
             THEN /\ prep_error' = "Failed to read retry chunks file"
                  /\ UNCHANGED <<retry_ids, chunks_to_upload>>
             ELSE LET parsed == ParseRetryIds(text)
                  IN IF parsed.is_err
                     THEN /\ prep_error' = "Failed to parse chunk IDs"
                          /\ UNCHANGED <<retry_ids, chunks_to_upload>>
                     ELSE /\ retry_ids' = parsed.ids
                          /\ chunks_to_upload' = FilterChunks(chunk_infos, parsed.ids)
                          /\ prep_error' =
                                 IF chunks_to_upload' = <<>>
                                 THEN "No chunks to upload after applying chunk offset"
                                 ELSE ""
    /\ IF prep_error' # ""
       THEN exit_code' = 1 /\ ppc' = "error"
       ELSE ppc' = "ready" /\ UNCHANGED exit_code
    /\ UNCHANGED <<cfg, tracker, elapsed, coord, workers, result, manifest, history,
                   seq, tracker_created, printed, adm, lck, hk, data, chunk_size, start_ind,
                   chunk_offset, model_chunks, chunk_infos>>

PrepNext ==
    \/ PrepSplit
    \/ PrepConvert
    \/ PrepFilterOffset
    \/ PrepFilterRetry

PrepSpec == PrepInit /\ [][PrepNext]_vars

\* ===================== admission decision on an arbitrary tracker state
\* parallel.rs 72-81 and 105: any UploadTracker and config values
\* should_start_upload may be called on
AdmitInit ==
    /\ SeqIdle
    /\ chunks = <<>>
    /\ max_concurrent \in 0 .. MaxConcurrentBound
    /\ max_retries = 1
    /\ target_rate_mibs \in TargetRates
    /\ overflow_checks \in BOOLEAN
    /\ bytes_uploaded \in 0 .. (MaxChunks * FullChunkSize)
    /\ active_uploads \in (0 .. (MaxConcurrentBound + 1)) \cup {UsizeMax}
    /\ completed_chunks = <<>>
    /\ poisoned = FALSE
    /\ elapsed \in 0 .. MaxElapsed
    /\ cpc = "idle"
    /\ chunks_remaining = <<>>
    /\ next_chunk = NoChunk
    /\ handles = <<>>
    /\ scan = 0
    /\ completed_handles = <<>>
    /\ successful_chunks = <<>>
    /\ failed_chunks = <<>>
    /\ delay = 0
    /\ wpc = [id \in AllIds |-> "unspawned"]
    /\ attempts = [id \in AllIds |-> 0]
    /\ result = NoResult
    /\ exit_code = NoExit
    /\ manifest = [written |-> FALSE, ids |-> <<>>]
    /\ incs = [id \in AllIds |-> 0]
    /\ decs = [id \in AllIds |-> 0]
    /\ broke_by = "none"
    /\ tracker_created = TRUE
    /\ printed = {}
    /\ data = <<>>
    /\ chunk_size = 1
    /\ start_ind = 0
    /\ chunk_offset = 0
    /\ retry_file = [given |-> FALSE, readable |-> FALSE, text |-> <<>>]
    /\ ppc = "idle"
    /\ model_chunks = <<>>
    /\ chunk_infos = <<>>
    /\ retry_ids = <<>>
    /\ chunks_to_upload = <<>>
    /\ prep_error = ""
    /\ apc = "call"
    /\ admitted = FALSE
    /\ tracker_mutex = MutexFree
    /\ pool_mutex = MutexFree
    /\ rate_callback = FALSE
    /\ HookIdle

\* parallel.rs 105-113: should_start_upload is called and returns
AdmitCall ==
    /\ apc = "call"
    /\ admitted' = should_start_upload
    /\ apc' = "returned"
    /\ UNCHANGED <<cfg, tracker, elapsed, coord, workers, outcome, history, seq,
                   tracker_created, printed, prep, lck, hk>>

AdmitNext == AdmitCall

AdmitSpec == AdmitInit /\ [][AdmitNext]_vars

\* ========================= the scheduler with its lock steps made explicit
\* The same coordinator loop and worker as above, with every lock()
\* and every drop of a guard a step of its own, so that a state shows which
\* thread holds which mutex at which statement.  The clock and the byte
\* count are left out: the one comparison that reads them (current rate <
\* target rate) may come out either way.
MaxLockChunks == 2

\* what no step of this specification changes
lock_frame == <<cfg, bytes_uploaded, completed_chunks, elapsed, scan, delay, result,
                manifest, history, seq, tracker_created, printed, prep, adm, hk,
                rate_callback>>

\* parallel.rs 276-295: the session is set up and the loop is entered
LockInit ==
    /\ SeqIdle
    /\ \E n \in 1 .. MaxLockChunks : chunks = [i \in 1 .. n |-> i - 1]
    /\ max_concurrent \in 1 .. MaxConcurrentBound
    /\ max_retries \in 1 .. MaxRetriesBound
    /\ target_rate_mibs \in TargetRates
    /\ overflow_checks \in BOOLEAN
    /\ rate_callback \in BOOLEAN
    /\ bytes_uploaded = 0
    /\ active_uploads = 0
    /\ completed_chunks = <<>>
    /\ poisoned = FALSE
    /\ elapsed = 0
    /\ cpc = "check_lock"
    /\ chunks_remaining = chunks
    /\ next_chunk = NoChunk
    /\ handles = <<>>
    /\ scan = 0
    /\ completed_handles = <<>>
    /\ successful_chunks = <<>>
    /\ failed_chunks = <<>>
    /\ delay = 0
    /\ wpc = [id \in AllIds |-> "unspawned"]
    /\ attempts = [id \in AllIds |-> 0]
    /\ result = NoResult
    /\ exit_code = NoExit
    /\ manifest = [written |-> FALSE, ids |-> <<>>]
    /\ incs = [id \in AllIds |-> 0]
    /\ decs = [id \in AllIds |-> 0]
    /\ broke_by = "none"
    /\ tracker_created = TRUE
    /\ printed = {}
    /\ data = <<>>
    /\ chunk_size = 1
    /\ start_ind = 0
    /\ chunk_offset = 0
    /\ retry_file = [given |-> FALSE, readable |-> FALSE, text |-> <<>>]
    /\ ppc = "idle"
    /\ model_chunks = <<>>
    /\ chunk_infos = <<>>
    /\ retry_ids = <<>>
    /\ chunks_to_upload = <<>>
    /\ prep_error = ""
    /\ apc = "idle"
    /\ admitted = FALSE
    /\ tracker_mutex = MutexFree
    /\ pool_mutex = MutexFree
    /\ HookIdle

\* tracker.lock().unwrap() on the coordinator: it blocks while the mutex is
\* held; on a poisoned mutex unwrap panics and the guard is dropped again
CoordLocksTracker(held) ==
    /\ tracker_mutex = MutexFree
    /\ IF poisoned
       THEN CoordPanics /\ UNCHANGED tracker_mutex
       ELSE /\ tracker_mutex' = CoordThread
            /\ cpc' = held
            /\ UNCHANGED exit_code

\* parallel.rs 298: lock for the admission check
LockForCheck ==
    /\ cpc = "check_lock"
    /\ CoordLocksTracker("check_held")
    /\ UNCHANGED <<lock_frame, active_uploads, poisoned, pool_mutex, chunks_remaining,
                   next_chunk, handles, completed_handles, successful_chunks,
                   failed_chunks, workers>>

CheckGuardKept == tracker_mutex
\* parallel.rs 297-300: the guard lives in the block that computes
\* should_start and is dropped at its closing brace
AfterCheckGuard == MutexFree

\* parallel.rs 299-302: should_start_upload, the guard is dropped
CheckHeld ==
    /\ cpc = "check_held"
    /\ tracker_mutex' = AfterCheckGuard
    /\ \E rate_below_target \in BOOLEAN :
          cpc' = IF active_uploads < max_concurrent
                    /\ (rate_below_target \/ active_uploads = 0)
                 THEN "pool_lock"
                 ELSE "scan"
    /\ UNCHANGED <<lock_frame, active_uploads, poisoned, pool_mutex, chunks_remaining,
                   next_chunk, handles, completed_handles, successful_chunks,
                   failed_chunks, workers, exit_code>>

\* parallel.rs 305: chunks_remaining.lock()
LockPool ==
    /\ cpc = "pool_lock"
    /\ pool_mutex = MutexFree
    /\ pool_mutex' = CoordThread
    /\ cpc' = "pool_held"
    /\ UNCHANGED <<lock_frame, active_uploads, poisoned, tracker_mutex,
                   chunks_remaining, next_chunk, handles, completed_handles,
                   successful_chunks, failed_chunks, workers, exit_code>>

\* parallel.rs 306-309: pop, the guard is dropped
PoolHeld ==
    /\ cpc = "pool_held"
    /\ pool_mutex' = MutexFree
    /\ IF Len(chunks_remaining) > 0
       THEN /\ next_chunk' = chunks_remaining[Len(chunks_remaining)]
            /\ chunks_remaining' = AfterPop(chunks_remaining)
            /\ cpc' = "inc_lock"
       ELSE /\ cpc' = "scan"
            /\ UNCHANGED <<chunks_remaining, next_chunk>>
    /\ UNCHANGED <<lock_frame, active_uploads, poisoned, tracker_mutex, handles,
                   completed_handles, successful_chunks, failed_chunks, workers,
                   exit_code>>

\* parallel.rs 312: lock for the increment
LockForInc ==
    /\ cpc = "inc_lock"
    /\ CoordLocksTracker("inc_held")
    /\ UNCHANGED <<lock_frame, active_uploads, poisoned, pool_mutex, chunks_remaining,
                   next_chunk, handles, completed_handles, successful_chunks,
                   failed_chunks, workers>>

\* parallel.rs 313-314: active_uploads += 1, the guard is dropped (by the
\* unwinding, which poisons the mutex, if the addition panics)
IncHeld ==
    /\ cpc = "inc_held"
    /\ tracker_mutex' = MutexFree
    /\ IF UsizeInc(active_uploads)[2]
       THEN /\ CoordPanics
            /\ poisoned' = TRUE
            /\ UNCHANGED active_uploads
       ELSE /\ active_uploads' = UsizeInc(active_uploads)[1]
            /\ cpc' = "spawn"
            /\ UNCHANGED <<poisoned, exit_code>>
    /\ UNCHANGED <<lock_frame, pool_mutex, chunks_remaining, next_chunk, handles,
                   completed_handles, successful_chunks, failed_chunks, workers>>

\* parallel.rs 317-341: thread::spawn and handles.push
SpawnWorker ==
    /\ cpc = "spawn"
    /\ wpc' = [wpc EXCEPT ![next_chunk] = "calling"]
    /\ attempts' = [attempts EXCEPT ![next_chunk] = 1]
    /\ handles' = Append(handles, next_chunk)
    /\ next_chunk' = NoChunk
    /\ cpc' = "scan"
    /\ UNCHANGED <<lock_frame, active_uploads, poisoned, tracker_mutex, pool_mutex,
                   chunks_remaining, completed_handles, successful_chunks,
                   failed_chunks, exit_code>>

\* the (index, chunk_id) pairs of the finished handles, in handle order
FinishedHandles ==
    SelectSeq([i \in 1 .. Len(handles) |-> <<i, handles[i]>>],
              LAMBDA e : IsFinished(e[2]))

\* parallel.rs 344-349: the is_finished() scan
ScanHandles ==
    /\ cpc = "scan"
    /\ completed_handles' = FinishedHandles
    /\ cpc' = IF Len(FinishedHandles) > 0 THEN "reap_lock" ELSE "delay_lock"
    /\ UNCHANGED <<lock_frame, active_uploads, poisoned, tracker_mutex, pool_mutex,
                   chunks_remaining, next_chunk, handles, successful_chunks,
                   failed_chunks, workers, exit_code>>

\* parallel.rs 352-357: handles.remove(index), then lock for the decrement
LockForReap ==
    /\ cpc = "reap_lock"
    /\ handles' = SeqRemove(handles, completed_handles[Len(completed_handles)][1])
    /\ CoordLocksTracker("reap_held")
    /\ UNCHANGED <<lock_frame, active_uploads, poisoned, pool_mutex, chunks_remaining,
                   next_chunk, completed_handles, successful_chunks, failed_chunks,
                   workers>>

\* parallel.rs 358-371: active_uploads -= 1, the guard is dropped, join and
\* the recording of the outcome
ReapHeld ==
    /\ cpc = "reap_held"
    /\ tracker_mutex' = MutexFree
    /\ LET chunk_id == completed_handles[Len(completed_handles)][2]
           dec == UsizeDec(active_uploads)
           rest == SubSeq(completed_handles, 1, Len(completed_handles) - 1)
       IN IF dec[2]
          THEN /\ CoordPanics
               /\ poisoned' = TRUE
               /\ UNCHANGED <<active_uploads, successful_chunks, failed_chunks,
                              completed_handles>>
          ELSE /\ active_uploads' = dec[1]
               /\ IF wpc[chunk_id] = "fin_ok"
                  THEN /\ successful_chunks' = Append(successful_chunks, chunk_id)
                       /\ UNCHANGED failed_chunks
                  ELSE /\ failed_chunks' =
                              MapInsert(failed_chunks, chunk_id, JoinFailure(chunk_id))
                       /\ UNCHANGED successful_chunks
               /\ completed_handles' = rest
               /\ cpc' = IF Len(rest) > 0 THEN "reap_lock" ELSE "delay_lock"
               /\ UNCHANGED <<poisoned, exit_code>>
    /\ UNCHANGED <<lock_frame, pool_mutex, chunks_remaining, next_chunk, handles,
                   workers>>

\* parallel.rs 376: lock for the pacing block
LockForDelay ==
    /\ cpc = "delay_lock"
    /\ CoordLocksTracker("delay_held")
    /\ UNCHANGED <<lock_frame, active_uploads, poisoned, pool_mutex, chunks_remaining,
                   next_chunk, handles, completed_handles, successful_chunks,
                   failed_chunks, workers>>

\* parallel.rs 377-381: with a rate callback configured it is called under
\* the guard; otherwise calculate_delay and the guard is dropped
DelayHeld ==
    /\ cpc = "delay_held"
    /\ IF rate_callback
       THEN /\ cpc' = "rate_callback"
            /\ UNCHANGED tracker_mutex
       ELSE /\ cpc' = "sleep"
            /\ tracker_mutex' = MutexFree
    /\ UNCHANGED <<lock_frame, active_uploads, poisoned, pool_mutex, chunks_remaining,
                   next_chunk, handles, completed_handles, successful_chunks,
                   failed_chunks, workers, exit_code>>

\* parallel.rs 378-381 (main.rs 84-88): the caller's rate callback returns;
\* calculate_delay, the guard is dropped
RateCallbackReturns ==
    /\ cpc = "rate_callback"
    /\ tracker_mutex' = MutexFree
    /\ cpc' = "sleep"
    /\ UNCHANGED <<lock_frame, active_uploads, poisoned, pool_mutex, chunks_remaining,
                   next_chunk, handles, completed_handles, successful_chunks,
                   failed_chunks, workers, exit_code>>

\* main.rs 87: flush().unwrap() in the rate callback panics; the unwinding
\* drops the guard and poisons the mutex
RateCallbackPanics ==
    /\ cpc = "rate_callback"
    /\ tracker_mutex' = MutexFree
    /\ poisoned' = TRUE
    /\ CoordPanics
    /\ UNCHANGED <<lock_frame, active_uploads, pool_mutex, chunks_remaining,
                   next_chunk, handles, completed_handles, successful_chunks,
                   failed_chunks, workers>>

\* parallel.rs 383-386: the pacing sleep is over; chunks_remaining.lock()
LockPoolForDone ==
    /\ cpc = "sleep"
    /\ pool_mutex = MutexFree
    /\ pool_mutex' = CoordThread
    /\ cpc' = "done_pool_held"
    /\ UNCHANGED <<lock_frame, active_uploads, poisoned, tracker_mutex,
                   chunks_remaining, next_chunk, handles, completed_handles,
                   successful_chunks, failed_chunks, workers, exit_code>>

\* parallel.rs 387: tracker.lock() with the pool guard held
LockTrackerForDone ==
    /\ cpc = "done_pool_held"
    /\ CoordLocksTracker("done_held")
    /\ pool_mutex' = IF poisoned THEN MutexFree ELSE pool_mutex
    /\ UNCHANGED <<lock_frame, active_uploads, poisoned, chunks_remaining,
                   next_chunk, handles, completed_handles, successful_chunks,
                   failed_chunks, workers>>

\* parallel.rs 388-400: both values are read, both guards dropped, and the
\* two termination checks made
DoneHeld ==
    /\ cpc = "done_held"
    /\ tracker_mutex' = MutexFree
    /\ pool_mutex' = MutexFree
    /\ LET chunks_empty == Len(chunks_remaining) = 0
           no_active == active_uploads = 0
           total_completed == Len(successful_chunks) + Cardinality(DOMAIN failed_chunks)
       IN cpc' = IF total_completed >= total_chunks_expected
                    \/ NothingLeft(chunks_empty, no_active)
                 THEN "report_lock"
                 ELSE "check_lock"
    /\ UNCHANGED <<lock_frame, active_uploads, poisoned, chunks_remaining,
                   next_chunk, handles, completed_handles, successful_chunks,
                   failed_chunks, workers, exit_code>>

\* parallel.rs 404: lock for the final rate report
LockForReport ==
    /\ cpc = "report_lock"
    /\ CoordLocksTracker("report_held")
    /\ UNCHANGED <<lock_frame, active_uploads, poisoned, pool_mutex, chunks_remaining,
                   next_chunk, handles, completed_handles, successful_chunks,
                   failed_chunks, workers>>

\* parallel.rs 405-424: the report is printed under the guard, the guard is
\* dropped and std::process::exit is called
ReportHeld ==
    /\ cpc = "report_held"
    /\ tracker_mutex' = MutexFree
    /\ exit_code' = ExitStatus(successful_chunks, failed_chunks)
    /\ cpc' = "exited"
    /\ UNCHANGED <<lock_frame, active_uploads, poisoned, pool_mutex, chunks_remaining,
                   next_chunk, handles, completed_handles, successful_chunks,
                   failed_chunks, workers>>

\* parallel.rs 168-171: the transfer call of a worker returns Ok
TransferReturnsOk(id) ==
    /\ ProcessAlive
    /\ wpc[id] = "calling"
    /\ wpc' = [wpc EXCEPT ![id] = "ok_lock"]
    /\ UNCHANGED <<lock_frame, active_uploads, poisoned, tracker_mutex, pool_mutex,
                   coord, attempts, exit_code>>

\* parallel.rs 168, 181-200: the transfer call returns Err; with the attempts
\* used up the worker goes for the tracker, otherwise it calls the progress
\* callback
TransferReturnsErr(id) ==
    /\ ProcessAlive
    /\ wpc[id] = "calling"
    /\ wpc' = [wpc EXCEPT ![id] =
                  IF attempts[id] >= max_retries THEN "err_lock" ELSE "callback"]
    /\ UNCHANGED <<lock_frame, active_uploads, poisoned, tracker_mutex, pool_mutex,
                   coord, attempts, exit_code>>

\* parallel.rs 173 and 185: tracker.lock().unwrap() on a worker; on a
\* poisoned mutex the worker's thread panics
WorkerLocksTracker(id) ==
    /\ ProcessAlive
    /\ wpc[id] \in {"ok_lock", "err_lock"}
    /\ tracker_mutex = MutexFree
    /\ IF poisoned
       THEN /\ wpc' = [wpc EXCEPT ![id] = "fin_panic"]
            /\ UNCHANGED tracker_mutex
       ELSE /\ wpc' = [wpc EXCEPT ![id] = IF @ = "ok_lock" THEN "ok_held" ELSE "err_held"]
            /\ tracker_mutex' = id
    /\ UNCHANGED <<lock_frame, active_uploads, poisoned, pool_mutex, coord, attempts,
                   exit_code>>

\* parallel.rs 174-179 and 186-191: the tracker update ending in
\* active_uploads -= 1, the guard is dropped and the worker returns
WorkerUpdateHeld(id) ==
    /\ ProcessAlive
    /\ wpc[id] \in {"ok_held", "err_held"}
    /\ tracker_mutex' = MutexFree
    /\ LET dec == UsizeDec(active_uploads)
       IN IF dec[2]
          THEN /\ poisoned' = TRUE
               /\ wpc' = [wpc EXCEPT ![id] = "fin_panic"]
               /\ UNCHANGED active_uploads
          ELSE /\ active_uploads' = dec[1]
               /\ wpc' = [wpc EXCEPT ![id] = IF @ = "ok_held" THEN "fin_ok" ELSE "fin_err"]
               /\ UNCHANGED poisoned
    /\ UNCHANGED <<lock_frame, pool_mutex, coord, attempts, exit_code>>

\* parallel.rs 194-203: the progress callback returns and the worker starts
\* its inter-retry sleep
CallbackReturns(id) ==
    /\ ProcessAlive
    /\ wpc[id] = "callback"
    /\ wpc' = [wpc EXCEPT ![id] = "sleeping"]
    /\ UNCHANGED <<lock_frame, active_uploads, poisoned, tracker_mutex, pool_mutex,
                   coord, attempts, exit_code>>

\* main.rs 79-81: println! in the progress callback panics
CallbackPanics(id) ==
    /\ ProcessAlive
    /\ wpc[id] = "callback"
    /\ wpc' = [wpc EXCEPT ![id] = "fin_panic"]
    /\ UNCHANGED <<lock_frame, active_uploads, poisoned, tracker_mutex, pool_mutex,
                   coord, attempts, exit_code>>

\* parallel.rs 203 and 165-168: the sleep is over, attempts += 1 and the
\* next transfer call
RetryAfterSleep(id) ==
    /\ ProcessAlive
    /\ wpc[id] = "sleeping"
    /\ attempts' = [attempts EXCEPT ![id] = @ + 1]
    /\ wpc' = [wpc EXCEPT ![id] = "calling"]
    /\ UNCHANGED <<lock_frame, active_uploads, poisoned, tracker_mutex, pool_mutex,
                   coord, exit_code>>

LockNext ==
    \/ LockForCheck
    \/ CheckHeld
    \/ LockPool
    \/ PoolHeld
    \/ LockForInc
    \/ IncHeld
    \/ SpawnWorker
    \/ ScanHandles
    \/ LockForReap
    \/ ReapHeld
    \/ LockForDelay
    \/ DelayHeld
    \/ RateCallbackReturns
    \/ RateCallbackPanics
    \/ LockPoolForDone
    \/ LockTrackerForDone
    \/ DoneHeld
    \/ LockForReport
    \/ ReportHeld
    \/ \E id \in AllIds : TransferReturnsOk(id)
    \/ \E id \in AllIds : TransferReturnsErr(id)
    \/ \E id \in AllIds : WorkerLocksTracker(id)
    \/ \E id \in AllIds : WorkerUpdateHeld(id)
    \/ \E id \in AllIds : CallbackReturns(id)
    \/ \E id \in AllIds : CallbackPanics(id)
    \/ \E id \in AllIds : RetryAfterSleep(id)

LockSpec == LockInit /\ [][LockNext]_vars

\* ================================= two sessions, with and without the hooks
\* The same chunks, the same configuration and the same behaviour of the
\* transfer primitive (transfer_ok fixes the result of every call) are given
\* to two sessions: one with the progress and rate callbacks installed, one
\* with None in their place.  In parallel mode the admission rule and the
\* counter active_uploads are left out: a pooled chunk may be dispatched on
\* any pass of the loop.
MaxHookChunks == 2

Runs == {"installed", "absent"}

\* config.progress_callback and config.rate_callback are Some
HooksInstalled(r) == r = "installed"

HookIds == 0 .. (Len(chunks) - 1)

\* the most transfer calls either loop makes for one chunk
HookCalls == IF MaxRetriesBound > 1 THEN MaxRetriesBound ELSE 1

HookOutcome(kind, at) == [kind |-> kind, at |-> at]

\* main.rs 126-139, 239-247: the session is configured and entered
HookInit ==
    /\ start_from_chunk = 0
    /\ progress_callback = FALSE
    /\ spc = "idle"
    /\ relative_index = 0
    /\ seq_attempts = 0
    /\ seq_result = NoSeqResult
    /\ run = 1
    /\ starts = <<>>
    /\ transfers = <<>>
    /\ in_call = {}
    /\ hook_calls = 0
    /\ hook_mode \in {"sequential", "parallel"}
    /\ auto_resume \in (IF hook_mode = "sequential" THEN BOOLEAN ELSE {FALSE})
    /\ \E n \in 1 .. MaxHookChunks : chunks = [i \in 1 .. n |-> i - 1]
    /\ max_concurrent = 1
    /\ max_retries \in 0 .. MaxRetriesBound
    /\ target_rate_mibs \in TargetRates
    /\ overflow_checks = FALSE
    /\ bytes_uploaded = 0
    /\ active_uploads = 0
    /\ completed_chunks = <<>>
    /\ poisoned = FALSE
    /\ elapsed = 0
    /\ cpc = "idle"
    /\ chunks_remaining = <<>>
    /\ next_chunk = NoChunk
    /\ handles = <<>>
    /\ scan = 0
    /\ completed_handles = <<>>
    /\ successful_chunks = <<>>
    /\ failed_chunks = <<>>
    /\ delay = 0
    /\ wpc = [id \in AllIds |-> "unspawned"]
    /\ attempts = [id \in AllIds |-> 0]
    /\ result = NoResult
    /\ exit_code = NoExit
    /\ manifest = [written |-> FALSE, ids |-> <<>>]
    /\ incs = [id \in AllIds |-> 0]
    /\ decs = [id \in AllIds |-> 0]
    /\ broke_by = "none"
    /\ tracker_created = FALSE
    /\ printed = {}
    /\ data = <<>>
    /\ chunk_size = 1
    /\ start_ind = 0
    /\ chunk_offset = 0
    /\ retry_file = [given |-> FALSE, readable |-> FALSE, text |-> <<>>]
    /\ ppc = "idle"
    /\ model_chunks = <<>>
    /\ chunk_infos = <<>>
    /\ retry_ids = <<>>
    /\ chunks_to_upload = <<>>
    /\ prep_error = ""
    /\ apc = "idle"
    /\ admitted = FALSE
    /\ tracker_mutex = MutexFree
    /\ pool_mutex = MutexFree
    /\ rate_callback = FALSE
    /\ transfer_ok \in [HookIds -> [1 .. HookCalls -> BOOLEAN]]
    /\ run_pc = [r \in Runs |-> "loop"]
    /\ run_index = [r \in Runs |-> 0]
    /\ run_wpc = [r \in Runs |-> [id \in HookIds |-> "pooled"]]
    /\ run_attempts = [r \in Runs |-> [id \in HookIds |-> 0]]
    /\ run_log = [r \in Runs |-> [id \in HookIds |-> <<>>]]
    /\ run_successful = [r \in Runs |-> {}]
    /\ run_failed = [r \in Runs |-> {}]
    /\ run_outcome = [r \in Runs |-> HookOutcome("none", 0)]

\* what no step of the comparison changes
hook_frame == <<cfg, tracker, elapsed, coord, workers, outcome, history, seq,
                tracker_created, printed, prep, adm, lck, hook_mode, transfer_ok>>

RunAlive(r) == run_pc[r] \notin {"done", "panicked"}

\* lib.rs 294-295, 310: Ok(()) => continue; after the last chunk Success
SeqAdvance(r) ==
    LET i == run_index[r]
    IN /\ run_successful' = [run_successful EXCEPT ![r] = @ \cup {i}]
       /\ IF i + 1 < Len(chunks)
          THEN /\ run_index' = [run_index EXCEPT ![r] = i + 1]
               /\ run_pc' = [run_pc EXCEPT ![r] = "loop"]
               /\ UNCHANGED run_outcome
          ELSE /\ run_pc' = [run_pc EXCEPT ![r] = "done"]
               /\ run_outcome' = [run_outcome EXCEPT ![r] = HookOutcome("Success", 0)]
               /\ UNCHANGED run_index

\* lib.rs 219-259: attempts += 1 and one call of the transfer primitive in
\* upload_chunk_with_config, up to the callback (if any) or the end of the
\* match arm; lib.rs 296-306 for the result of a chunk that failed
HookSeqCall(r) ==
    /\ hook_mode = "sequential"
    /\ run_pc[r] = "loop"
    /\ LET i == run_index[r]
           a == run_attempts[r][i] + 1
           ok == transfer_ok[i][a]
       IN /\ run_attempts' = [run_attempts EXCEPT ![r][i] = a]
          /\ run_log' = [run_log EXCEPT ![r][i] = Append(@, ok)]
          /\ IF ok
             THEN IF HooksInstalled(r)
                  THEN /\ run_pc' = [run_pc EXCEPT ![r] = "callback_ok"]
                       /\ UNCHANGED <<run_index, run_successful, run_failed, run_outcome>>
                  ELSE SeqAdvance(r) /\ UNCHANGED run_failed
             ELSE IF a >= max_attempts
                  THEN /\ run_pc' = [run_pc EXCEPT ![r] = "done"]
                       /\ run_failed' = [run_failed EXCEPT ![r] = {i}]
                       /\ run_outcome' =
                             [run_outcome EXCEPT ![r] =
                                 IF auto_resume THEN HookOutcome("Interrupted", i)
                                 ELSE HookOutcome("Failed", 0)]
                       /\ UNCHANGED <<run_index, run_successful>>
                  ELSE /\ run_pc' = [run_pc EXCEPT ![r] =
                                        IF HooksInstalled(r) THEN "callback_retry" ELSE "loop"]
                       /\ UNCHANGED <<run_index, run_successful, run_failed, run_outcome>>
    /\ UNCHANGED <<hook_frame, run_wpc>>

\* lib.rs 233-241, 251-259 (main.rs 74-76): the progress callback returns
HookSeqCallbackReturns(r) ==
    /\ hook_mode = "sequential"
    /\ run_pc[r] \in {"callback_ok", "callback_retry"}
    /\ IF run_pc[r] = "callback_ok"
       THEN SeqAdvance(r)
       ELSE /\ run_pc' = [run_pc EXCEPT ![r] = "loop"]
            /\ UNCHANGED <<run_index, run_successful, run_outcome>>
    /\ UNCHANGED <<hook_frame, run_wpc, run_attempts, run_log, run_failed>>

\* main.rs 74-76: println! in the progress callback panics (stdout is
\* gone); the panic of the main thread ends the process
HookSeqCallbackPanics(r) ==
    /\ hook_mode = "sequential"
    /\ run_pc[r] \in {"callback_ok", "callback_retry"}
    /\ run_pc' = [run_pc EXCEPT ![r] = "panicked"]
    /\ run_outcome' = [run_outcome EXCEPT ![r] = HookOutcome("panic", PanicExit)]
    /\ UNCHANGED <<hook_frame, run_index, run_wpc, run_attempts, run_log,
                   run_successful, run_failed>>

\* chunks still in chunks_remaining
Pooled(r) == {id \in HookIds : run_wpc[r][id] = "pooled"}

\* parallel.rs 304-341: Vec::pop (the last element) and thread::spawn
HookDispatch(r) ==
    /\ hook_mode = "parallel"
    /\ run_pc[r] = "loop"
    /\ Pooled(r) # {}
    /\ LET id == CHOOSE x \in Pooled(r) : \A y \in Pooled(r) : y <= x
       IN run_wpc' = [run_wpc EXCEPT ![r][id] = "calling"]
    /\ UNCHANGED <<hook_frame, run_pc, run_index, run_attempts, run_log,
                   run_successful, run_failed, run_outcome>>

\* parallel.rs 165-203, 248-257: attempts += 1 and one dfx call in
\* upload_chunk_with_id_sync, up to the callback (if any) that follows a
\* success (250-252) or a failure with attempts left (194-200), or else up
\* to the return
HookTransfer(r, id) ==
    /\ hook_mode = "parallel"
    /\ RunAlive(r)
    /\ id \in HookIds
    /\ run_wpc[r][id] = "calling"
    /\ LET a == run_attempts[r][id] + 1
           ok == transfer_ok[id][a]
       IN /\ run_attempts' = [run_attempts EXCEPT ![r][id] = a]
          /\ run_log' = [run_log EXCEPT ![r][id] = Append(@, ok)]
          /\ run_wpc' = [run_wpc EXCEPT ![r][id] =
                            IF ok
                            THEN IF HooksInstalled(r) THEN "callback_ok" ELSE "fin_ok"
                            ELSE IF a >= max_retries THEN "fin_err"
                            ELSE IF HooksInstalled(r) THEN "callback"
                            ELSE "calling"]
    /\ UNCHANGED <<hook_frame, run_pc, run_index, run_successful, run_failed,
                   run_outcome>>

\* parallel.rs 250-253, 194-203 (main.rs 79-81): the progress callback
\* returns
HookCallbackReturns(r, id) ==
    /\ hook_mode = "parallel"
    /\ RunAlive(r)
    /\ id \in HookIds
    /\ run_wpc[r][id] \in {"callback_ok", "callback"}
    /\ run_wpc' = [run_wpc EXCEPT ![r][id] = IF @ = "callback_ok" THEN "fin_ok" ELSE "calling"]
    /\ UNCHANGED <<hook_frame, run_pc, run_index, run_attempts, run_log,
                   run_successful, run_failed, run_outcome>>

\* main.rs 79-81: println! in the progress callback panics; the worker's
\* thread unwinds
HookCallbackPanics(r, id) ==
    /\ hook_mode = "parallel"
    /\ RunAlive(r)
    /\ id \in HookIds
    /\ run_wpc[r][id] \in {"callback_ok", "callback"}
    /\ run_wpc' = [run_wpc EXCEPT ![r][id] = "fin_panic"]
    /\ UNCHANGED <<hook_frame, run_pc, run_index, run_attempts, run_log,
                   run_successful, run_failed, run_outcome>>

\* parallel.rs 344-372: a finished worker is joined and recorded
HookReap(r, id) ==
    /\ hook_mode = "parallel"
    /\ run_pc[r] = "loop"
    /\ id \in HookIds
    /\ run_wpc[r][id] \in {"fin_ok", "fin_err", "fin_panic"}
    /\ id \notin run_successful[r] \cup run_failed[r]
    /\ IF run_wpc[r][id] = "fin_ok"
       THEN /\ run_successful' = [run_successful EXCEPT ![r] = @ \cup {id}]
            /\ UNCHANGED run_failed
       ELSE /\ run_failed' = [run_failed EXCEPT ![r] = @ \cup {id}]
            /\ UNCHANGED run_successful
    /\ UNCHANGED <<hook_frame, run_pc, run_index, run_wpc, run_attempts, run_log,
                   run_outcome>>

\* parallel.rs 375-381: the pacing block calls the rate callback if there
\* is one
HookPace(r) ==
    /\ hook_mode = "parallel"
    /\ run_pc[r] = "loop"
    /\ run_pc' = [run_pc EXCEPT ![r] = IF HooksInstalled(r) THEN "rate_callback" ELSE "sleep"]
    /\ UNCHANGED <<hook_frame, run_index, run_wpc, run_attempts, run_log,
                   run_successful, run_failed, run_outcome>>

\* parallel.rs 378-383 (main.rs 84-89): the rate callback returns
HookRateReturns(r) ==
    /\ hook_mode = "parallel"
    /\ run_pc[r] = "rate_callback"
    /\ run_pc' = [run_pc EXCEPT ![r] = "sleep"]
    /\ UNCHANGED <<hook_frame, run_index, run_wpc, run_attempts, run_log,
                   run_successful, run_failed, run_outcome>>

\* main.rs 86-87: print! or flush().unwrap() in the rate callback panics;
\* the panic of the main thread ends the process
HookRatePanics(r) ==
    /\ hook_mode = "parallel"
    /\ run_pc[r] = "rate_callback"
    /\ run_pc' = [run_pc EXCEPT ![r] = "panicked"]
    /\ run_outcome' = [run_outcome EXCEPT ![r] = HookOutcome("panic", PanicExit)]
    /\ UNCHANGED <<hook_frame, run_index, run_wpc, run_attempts, run_log,
                   run_successful, run_failed>>

\* parallel.rs 393-424: the break once every chunk is recorded, and the
\* status passed to std::process::exit
HookDoneCheck(r) ==
    /\ hook_mode = "parallel"
    /\ run_pc[r] = "sleep"
    /\ IF Cardinality(run_successful[r]) + Cardinality(run_failed[r]) >= total_chunks_expected
       THEN /\ run_pc' = [run_pc EXCEPT ![r] = "done"]
            /\ run_outcome' =
                  [run_outcome EXCEPT ![r] =
                      HookOutcome("exit", IF run_failed[r] = {} THEN 0 ELSE 1)]
       ELSE /\ run_pc' = [run_pc EXCEPT ![r] = "loop"]
            /\ UNCHANGED run_outcome
    /\ UNCHANGED <<hook_frame, run_index, run_wpc, run_attempts, run_log,
                   run_successful, run_failed>>

HookNext ==
    \/ \E r \in Runs : HookSeqCall(r)
    \/ \E r \in Runs : HookSeqCallbackReturns(r)
    \/ \E r \in Runs : HookSeqCallbackPanics(r)
    \/ \E r \in Runs : HookDispatch(r)
    \/ \E r \in Runs, id \in AllIds : HookTransfer(r, id)
    \/ \E r \in Runs, id \in AllIds : HookCallbackReturns(r, id)
    \/ \E r \in Runs, id \in AllIds : HookCallbackPanics(r, id)
    \/ \E r \in Runs, id \in AllIds : HookReap(r, id)
    \/ \E r \in Runs : HookPace(r)
    \/ \E r \in Runs : HookRateReturns(r)
    \/ \E r \in Runs : HookRatePanics(r)
    \/ \E r \in Runs : HookDoneCheck(r)

HookSpec == HookInit /\ [][HookNext]_vars

\* ------------------------------------------------------------------ claims
\* the coordinator is inside the main loop of upload_chunks_parallel
InMainLoop ==
    cpc \in {"check", "inc", "spawn", "poll", "reap", "delay", "sleep", "done_check"}

\* the main loop was left by one of its two breaks
LoopExited == broke_by # "none"

\* chunks whose worker the coordinator has reaped and recorded
Recorded == RangeOf(successful_chunks) \cup DOMAIN failed_chunks

\* workers inside a transfer call or an inter-retry sleep: chunks actually in
\* flight (a worker that has already given its slot back and is only
\* returning is not counted)
Uploading == {id \in AllIds : wpc[id] = "calling"}

\* C1: with max_concurrent >= 1, the number of chunks actually in flight
\* never exceeds max_concurrent.
C1_InFlightWithinLimit ==
    max_concurrent >= 1 => Cardinality(Uploading) <= max_concurrent

\* C2: with max_concurrent >= 1, 0 <= active_uploads <= max_concurrent in
\* every reachable state (no underflow, no excess).
C2_ActiveUploadsInRange ==
    max_concurrent >= 1 => (0 <= active_uploads /\ active_uploads <= max_concurrent)

\* C3: over the whole life of a dispatched chunk, active_uploads is
\* incremented exactly once and decremented exactly once for it (worker and
\* coordinator decrements counted together).
C3_OneIncrementOneDecrement ==
    \A id \in Recorded : incs[id] = 1 /\ decs[id] = 1

\* C4: whenever the main loop exits by either break (max_concurrent >= 1,
\* distinct IDs), successful_chunks and the keys of failed_chunks are
\* disjoint and together count exactly the submitted chunks; so the
\* secondary break never leaves a submitted chunk unaccounted.
C4_LoopExitAccountsForAll ==
    (LoopExited /\ max_concurrent >= 1) =>
        /\ RangeOf(successful_chunks) \cap DOMAIN failed_chunks = {}
        /\ Len(successful_chunks) + Cardinality(DOMAIN failed_chunks) = total_chunks_expected
        /\ Recorded = RangeOf(chunks)

\* C4 witness: the loop has exited after recording both a success and a
\* failure among three submitted chunks.
C4_Witness ==
    /\ LoopExited
    /\ max_concurrent >= 1
    /\ Len(chunks) = MaxChunks
    /\ Len(successful_chunks) > 0
    /\ DOMAIN failed_chunks # {}

\* unscheduled chunks remain, no chunk is popped and awaiting dispatch, no
\* worker is in flight or waiting to be reaped, and the counter refuses
\* admission whatever the rate: nothing is left that could change the counter
Stalled ==
    /\ max_concurrent >= 1
    /\ InMainLoop
    /\ Len(chunks_remaining) > 0
    /\ next_chunk = NoChunk
    /\ InFlight = {}
    /\ Len(handles) = 0
    /\ ~ should_start_upload
    /\ active_uploads >= max_concurrent

\* C5: the scheduler never reaches a state where unscheduled chunks remain,
\* no worker is in flight, and admission is refused forever (every chunk is
\* eventually dispatched and the main loop terminates).
C5_NeverStalled == ~ Stalled

\* C5, supporting: a stalled scheduler stays stalled, so the refusal found by
\* C5_NeverStalled is permanent and the main loop never terminates.
C5_StallIsPermanent == [][Stalled => Stalled']_vars

\* C6: with max_concurrent = 0 and a non-empty input, once the first pass's
\* admission step is over either the configuration has been rejected (the
\* coordinator is not in the loop) or a chunk has been dispatched as it
\* would be with max_concurrent = 1.
C6_ZeroConcurrencyRejectedOrClamped ==
    (max_concurrent = 0 /\ Len(chunks) > 0 /\ cpc = "sleep") =>
        \E id \in AllIds : wpc[id] # "unspawned"

\* the outcome parallel.rs 412-425 classifies
Classified ==
    IF DOMAIN failed_chunks = {} THEN "Success"
    ELSE IF Len(successful_chunks) = 0 THEN "Failed"
    ELSE "PartialFailure"

\* C7: after the main loop terminates the caller is handed Success when the
\* failed set is empty, Failed when the successful set is empty and the
\* failed set is not, and PartialFailure carrying both sets otherwise.
C7_CallerReceivesClassifiedOutcome ==
    (LoopExited /\ cpc = "exited") =>
        /\ result.kind = Classified
        /\ result.kind = "PartialFailure" =>
              /\ result.successful = successful_chunks
              /\ result.failed = failed_chunks

\* chunks whose every transfer attempt failed until the retries ran out
PermanentlyFailed == {id \in AllIds : wpc[id] \in {"returning_err", "fin_err"}}

\* C8: a run (max_concurrent >= 1) in which the transfer permanently fails
\* exactly a non-empty proper subset F of the submitted IDs and succeeds on
\* the others ends with PartialFailure whose successful IDs are the
\* submitted IDs minus F and whose failed keys are F.
C8_EndToEndPartialFailure ==
    (/\ cpc = "exited"
     /\ max_concurrent >= 1
     /\ PermanentlyFailed # {}
     /\ PermanentlyFailed # RangeOf(chunks)
     /\ \A id \in RangeOf(chunks) \ PermanentlyFailed : wpc[id] = "fin_ok") =>
        /\ result.kind = "PartialFailure"
        /\ RangeOf(result.successful) = RangeOf(chunks) \ PermanentlyFailed
        /\ DOMAIN result.failed = PermanentlyFailed

\* C9: when a run ends with at least one chunk succeeded and at least one
\* permanently failed, the failed-chunk manifest has been written with
\* exactly the failed IDs by the time the process ends.
C9_ManifestWrittenOnPartialFailure ==
    (/\ cpc = "exited"
     /\ Len(successful_chunks) > 0
     /\ DOMAIN failed_chunks # {}
     /\ DOMAIN failed_chunks = PermanentlyFailed) =>
        /\ manifest.written
        /\ RangeOf(manifest.ids) = DOMAIN failed_chunks

\* C10: retry bound of the worker, for every accepted max_retries: a worker
\* whose transfer succeeded after max_retries - 1 failures ends Ok (it does
\* not crash and is not recorded as failed); a worker that ends Err made
\* exactly max_retries attempts; no worker ends Err with fewer.
C10_RetryBound ==
    \A id \in AllIds :
        /\ (id \in RangeOf(completed_chunks) /\ attempts[id] = max_retries) =>
               wpc[id] \in {"returning_ok", "fin_ok"}
        /\ wpc[id] \in {"returning_err", "fin_err"} => attempts[id] = max_retries

\* C11: upload_chunks_parallel called with an empty chunk list returns Failed
\* at once: no worker is spawned, no transfer is attempted, and no tracker is
\* created or changed.
C11_EmptyListFailsImmediately ==
    Len(chunks) = 0 =>
        /\ cpc \in {"entry", "returned", "exited"}
        /\ cpc # "entry" => result = Failed("No chunks to upload")
        /\ \A id \in AllIds : wpc[id] = "unspawned" /\ attempts[id] = 0
        /\ handles = <<>>
        /\ ~tracker_created
        /\ bytes_uploaded = 0 /\ active_uploads = 0 /\ completed_chunks = <<>>
        /\ ~poisoned

C11_Witness ==
    Len(chunks) = 0 /\ cpc = "returned" /\ result = Failed("No chunks to upload")

NoDuplicates(s) == \A i, j \in 1 .. Len(s) : s[i] = s[j] => i = j

\* C12: in a parallel session (chunk IDs distinct) no step decreases
\* bytes_uploaded, and after every step completed_chunks holds no ID twice
\* and only IDs of submitted chunks.
C12_BytesMonotoneCompletedDistinct ==
    [][/\ bytes_uploaded' >= bytes_uploaded
       /\ NoDuplicates(completed_chunks')
       /\ RangeOf(completed_chunks') \subseteq RangeOf(chunks)]_vars

C12_Witness ==
    /\ Len(completed_chunks) >= 2
    /\ bytes_uploaded = FullChunkSize + FullChunkSize
    /\ \E id \in RangeOf(completed_chunks) : attempts[id] > 1

\* positions in the log of the transfer calls of invocation r
CallsOf(r) == {j \in 1 .. Len(transfers) : transfers[j][1] = r}

\* successful transfers of chunk index k, over all invocations
SuccessesOf(k) ==
    Cardinality({j \in 1 .. Len(transfers) : transfers[j][2] = k /\ transfers[j][3]})

SeqEnded == spc \in {"returned", "exited"}

\* C13: the sequential uploader attempts transfers in non-decreasing chunk
\* index order, has at most one transfer in progress, and starts a transfer
\* of an index above start_from_chunk only after a transfer of the index
\* before it succeeded in the same run.
C13_SequentialOrder ==
    /\ Cardinality(in_call) <= 1
    /\ \A i, j \in 1 .. Len(transfers) :
           (i < j /\ transfers[i][1] = transfers[j][1]) =>
               transfers[i][2] <= transfers[j][2]
    /\ \A j \in 1 .. Len(transfers) :
           transfers[j][2] > starts[transfers[j][1]] =>
               \E i \in 1 .. (j - 1) :
                   transfers[i] = <<transfers[j][1], transfers[j][2] - 1, TRUE>>
    /\ \A k \in in_call :
           /\ \A j \in CallsOf(run) : transfers[j][2] <= k
           /\ k > starts[run] =>
                  \E i \in CallsOf(run) : transfers[i] = <<run, k - 1, TRUE>>

C13_Witness ==
    /\ starts = <<1>>
    /\ transfers = <<(<<1, 1, FALSE>>), (<<1, 1, TRUE>>)>>
    /\ in_call = {2}

\* C14: with auto_resume off every chunk gets exactly one attempt whatever
\* max_retries is; the first failing attempt ends the run with Failed and no
\* higher index is attempted; a run that ends Success made exactly one
\* attempt for each index from start_from_chunk on.
C14_NoResumeSingleAttempt ==
    ~auto_resume =>
        /\ seq_attempts <= 1
        /\ \A i, j \in CallsOf(run) : transfers[i][2] = transfers[j][2] => i = j
        /\ \A j \in CallsOf(run) :
               ~transfers[j][3] =>
                   /\ j = Len(transfers)
                   /\ in_call = {}
                   /\ SeqEnded
                   /\ seq_result.kind = "Failed"
        /\ seq_result.kind = "Success" =>
               \A k \in starts[run] .. (Len(chunks) - 1) :
                   \E j \in CallsOf(run) : transfers[j] = <<run, k, TRUE>>

C14_Witness ==
    /\ ~auto_resume
    /\ max_retries = MaxRetriesBound
    /\ run = 1
    /\ transfers = <<(<<1, 0, TRUE>>), (<<1, 1, FALSE>>)>>
    /\ Len(chunks) = 3
    /\ spc = "exited"
    /\ seq_result.kind = "Failed"

\* C15: with auto_resume on, a run that ends because a chunk used up its
\* attempts returns Interrupted (never Failed) whose failed_at_chunk is the
\* 0-based index of that chunk; every index from start_from_chunk up to it
\* was transferred successfully in the run and no higher index was attempted.
C15_ExhaustionInterrupts ==
    (/\ auto_resume
     /\ SeqEnded
     /\ CallsOf(run) # {}
     /\ ~transfers[Len(transfers)][3]) =>
        /\ seq_result.kind = "Interrupted"
        /\ seq_result.failed_at_chunk = transfers[Len(transfers)][2]
        /\ \A k \in starts[run] .. (seq_result.failed_at_chunk - 1) :
               \E j \in CallsOf(run) : transfers[j] = <<run, k, TRUE>>
        /\ \A j \in CallsOf(run) : transfers[j][2] <= seq_result.failed_at_chunk

C15_Witness ==
    /\ auto_resume
    /\ spc = "returned"
    /\ starts = <<1>>
    /\ max_retries = 2
    /\ seq_result.kind = "Interrupted"
    /\ seq_result.failed_at_chunk = 2

\* failed attempts of chunk index k in invocation r
FailuresOf(r, k) ==
    Cardinality({j \in CallsOf(r) : transfers[j][2] = k /\ ~transfers[j][3]})

\* C16: retry bound of the sequential uploader with auto_resume on, for
\* every accepted max_retries: a chunk whose transfer succeeds after
\* max_retries - 1 failures is successful and the run goes on; a chunk whose
\* transfer always fails has made exactly max_retries attempts when the run
\* is interrupted.
C16_SequentialRetryBound ==
    auto_resume =>
        /\ \A j \in CallsOf(run) :
               (transfers[j][3] /\ FailuresOf(run, transfers[j][2]) = max_retries - 1) =>
                   seq_result.kind \notin {"Interrupted", "Failed"}
                       \/ seq_result.failed_at_chunk > transfers[j][2]
        /\ (SeqEnded /\ seq_result.kind = "Interrupted") =>
               FailuresOf(run, seq_result.failed_at_chunk) = max_retries

\* C17: resume composes: when a run from s ends Interrupted at k and the
\* invocation with start_from_chunk = k ends Success, every index in
\* s .. total - 1 has exactly one successful transfer over the two runs.
C17_ResumeComposes ==
    (run = 2 /\ SeqEnded /\ seq_result.kind = "Success") =>
        \A k \in starts[1] .. (Len(chunks) - 1) : SuccessesOf(k) = 1

C17_Witness ==
    /\ run = 2
    /\ spc = "returned"
    /\ seq_result.kind = "Success"
    /\ starts = <<0, 1>>
    /\ Len(chunks) = 3

\* C18: upload_chunks_with_resume returns Failed without a transfer call
\* and without a progress callback call when start_from_chunk is at or past
\* the number of chunks, and when the chunk list is empty.
C18_BadStartRejected ==
    (Len(chunks) = 0 \/ start_from_chunk >= Len(chunks)) =>
        /\ spc \in {"entry", "returned", "exited"}
        /\ spc # "entry" => seq_result.kind = "Failed"
        /\ CallsOf(run) = {}
        /\ in_call = {}
        /\ run = 1 => hook_calls = 0

C18_Witness ==
    /\ Len(chunks) > 0
    /\ start_from_chunk = Len(chunks)
    /\ progress_callback
    /\ spc = "returned"
    /\ seq_result = SeqFailed("Start chunk index exceeds total chunks")

\* C19: with at least one chunk, start_from_chunk = k below the number of
\* chunks and a transfer that always succeeds, the run makes exactly
\* total - k transfers, one for each index k .. total - 1 in turn, and
\* returns Success.
C19_AllSucceedFromStart ==
    (/\ run = 1
     /\ Len(chunks) >= 1
     /\ start_from_chunk < Len(chunks)
     /\ SeqEnded
     /\ \A j \in 1 .. Len(transfers) : transfers[j][3]) =>
        /\ seq_result = SeqSuccess
        /\ Len(transfers) = Len(chunks) - start_from_chunk
        /\ \A i \in 1 .. Len(transfers) :
               transfers[i] = <<1, start_from_chunk + i - 1, TRUE>>

C19_Witness ==
    /\ run = 1
    /\ Len(chunks) = 3
    /\ start_from_chunk = 1
    /\ spc = "returned"
    /\ seq_result = SeqSuccess
    /\ transfers = <<(<<1, 1, TRUE>>), (<<1, 2, TRUE>>)>>

\* C20: the process ends with status 0 exactly when the outcome is Success;
\* every Failed, PartialFailure or Interrupted outcome, in parallel and in
\* sequential mode, ends it with a non-zero status after the resume or retry
\* instructions have been printed (parallel runs taken with max_retries >= 1
\* and every recorded failure one of retry exhaustion).
C20_ExitStatusAndInstructions ==
    /\ (/\ cpc = "exited"
        /\ LoopExited
        /\ max_retries >= 1
        /\ DOMAIN failed_chunks = PermanentlyFailed) =>
           /\ exit_code = 0 <=> Classified = "Success"
           /\ Classified # "Success" => printed # {}
    /\ spc = "exited" =>
           /\ exit_code = 0 <=> seq_result.kind = "Success"
           /\ seq_result.kind # "Success" => printed # {}

\* concatenation of a sequence of byte sequences, in order
RECURSIVE Concat(_)
Concat(ss) == IF ss = <<>> THEN <<>> ELSE Head(ss) \o Concat(Tail(ss))

\* data[k:]
DataFrom(k) == SubSeq(data, k + 1, Len(data))

\* split_into_chunks has been called and the call is over
SplitDone == ppc \notin {"idle", "split"}

\* C21: chunker round trip: for every data, chunk_size > 0 and
\* start_ind = k <= len(data), split_into_chunks(data, chunk_size, k) returns
\* chunks whose concatenation in order is data[k:], and they equal
\* split_into_chunks(data[k:], chunk_size, 0).
C21_ChunkerRoundTrip ==
    (SplitDone /\ chunk_size > 0 /\ start_ind <= Len(data)) =>
        /\ ppc # "panicked"
        /\ Concat(model_chunks) = DataFrom(start_ind)
        /\ model_chunks = split_into_chunks(DataFrom(start_ind), chunk_size, 0).chunks

\* C22: for chunk_size > 0 every chunk split_into_chunks returns except
\* possibly the last has length exactly chunk_size, the last has length
\* between 1 and chunk_size, and start_ind >= len(data) yields the empty
\* sequence.
C22_ChunkLengths ==
    (SplitDone /\ chunk_size > 0) =>
        /\ ppc # "panicked" =>
               /\ \A i \in 1 .. (Len(model_chunks) - 1) :
                      Len(model_chunks[i]) = chunk_size
               /\ model_chunks # <<>> =>
                      /\ Len(model_chunks[Len(model_chunks)]) >= 1
                      /\ Len(model_chunks[Len(model_chunks)]) <= chunk_size
        /\ start_ind >= Len(data) => (ppc # "panicked" /\ model_chunks = <<>>)

C22_Witness ==
    /\ ppc = "convert"
    /\ chunk_size = 2
    /\ start_ind = 0
    /\ data = <<0, 1, 1>>
    /\ model_chunks = <<(<<0, 1>>), (<<1>>)>>

\* C23: split_into_chunks called with chunk_size = 0 reports an
\* invalid-configuration error as its result, for any data and start_ind; it
\* does not return chunks and does not crash.
C23_ZeroChunkSizeIsError ==
    (SplitDone /\ chunk_size = 0) => (ppc = "error" /\ prep_error # "")

\* chunks_to_chunk_info has been called and has returned
ConvertDone == ppc \in {"filter", "ready", "error"}

\* C24: chunks_to_chunk_info gives the i-th chunk (from 0) the ID i, its data
\* unchanged and size = len(data); the chunk-offset path submits exactly the
\* entries with IDs k .. N - 1, each as it was, and nothing when k >= N.
C24_PositionalChunkIds ==
    /\ ConvertDone =>
           /\ Len(chunk_infos) = Len(model_chunks)
           /\ \A i \in 1 .. Len(chunk_infos) :
                  /\ chunk_infos[i].chunk_id = i - 1
                  /\ chunk_infos[i].data = model_chunks[i]
                  /\ chunk_infos[i].size = Len(model_chunks[i])
    /\ (ppc \in {"ready", "error"} /\ ~retry_file.given) =>
           IF chunk_offset >= Len(chunk_infos)
           THEN chunks_to_upload = <<>> /\ ppc = "error"
           ELSE /\ ppc = "ready"
                /\ Len(chunks_to_upload) = Len(chunk_infos) - chunk_offset
                /\ \A j \in 1 .. Len(chunks_to_upload) :
                       /\ chunks_to_upload[j] = chunk_infos[chunk_offset + j]
                       /\ chunks_to_upload[j].chunk_id = chunk_offset + j - 1

C24_Witness ==
    /\ ppc = "ready"
    /\ ~retry_file.given
    /\ chunk_offset = 1
    /\ data = <<0, 1, 1>>
    /\ chunk_size = 1
    /\ start_ind = 0
    /\ Len(chunks_to_upload) = 2
    /\ chunks_to_upload[1] = [chunk_id |-> 1, data |-> <<1>>, size |-> 1]

\* C25: manifest-filtered retry: the chunks submitted are exactly the
\* ChunkInfos whose ID is listed in the manifest, in their original relative
\* order and each as it was; no chunk outside the manifest is submitted.
C25_ManifestFilter ==
    /\ (ppc = "ready" /\ retry_file.given) =>
           /\ \A j \in 1 .. Len(chunks_to_upload) :
                  /\ chunks_to_upload[j].chunk_id \in RangeOf(retry_ids)
                  /\ \E i \in 1 .. Len(chunk_infos) :
                         chunks_to_upload[j] = chunk_infos[i]
           /\ \A i \in 1 .. Len(chunk_infos) :
                  chunk_infos[i].chunk_id \in RangeOf(retry_ids) =>
                      \E j \in 1 .. Len(chunks_to_upload) :
                          chunks_to_upload[j] = chunk_infos[i]
           /\ \A i, j \in 1 .. Len(chunks_to_upload) :
                  i < j => chunks_to_upload[i].chunk_id < chunks_to_upload[j].chunk_id
    /\ (ppc = "error" /\ retry_file.given) => chunks_to_upload = <<>>

C25_Witness ==
    /\ ppc = "ready"
    /\ retry_file.text = <<"2", ",", "0">>
    /\ data = <<0, 1, 1>>
    /\ chunk_size = 1
    /\ start_ind = 0
    /\ chunks_to_upload = << [chunk_id |-> 0, data |-> <<0>>, size |-> 1],
                             [chunk_id |-> 2, data |-> <<1>>, size |-> 1] >>

\* C26: within one pass of the coordinator loop admission repeats for as
\* long as should_start_upload admits and chunks remain in the pool: the
\* pass goes on from dispatching to polling and reaping only when the
\* controller no longer admits or the pool is empty (so a pass that starts
\* with nothing in flight, rate below target and at least max_concurrent
\* chunks pooled dispatches max_concurrent workers).
C26_AdmissionRepeatsWithinPass ==
    [][(cpc = "spawn" /\ cpc' = "poll") =>
           ~(should_start_upload' /\ Len(chunks_remaining') > 0)]_vars

\* C27: should_start_upload returns true if and only if active_uploads <
\* max_concurrent and (current rate < target rate or active_uploads = 0), for
\* every tracker state; the current rate is bytes_uploaded divided by the
\* elapsed time and 0 while no time has elapsed, so with nothing uploaded
\* and nothing in flight admission is granted whenever max_concurrent >= 1.
C27_AdmissionRule ==
    apc = "returned" =>
        /\ admitted <=>
               /\ active_uploads < max_concurrent
               /\ \/ (IF elapsed = 0 THEN 0 < target_rate_mibs
                       ELSE bytes_uploaded < target_rate_mibs * elapsed)
                  \/ active_uploads = 0
        /\ (bytes_uploaded = 0 /\ active_uploads = 0 /\ max_concurrent >= 1) => admitted

C27_Witness ==
    /\ apc = "returned"
    /\ admitted
    /\ active_uploads = 0
    /\ elapsed > 0
    /\ bytes_uploaded >= target_rate_mibs * elapsed

\* C28: the coordinator's increment of active_uploads for a chunk happens
\* before the chunk's worker thread is spawned: no worker is running, or
\* finished and unreaped, for a chunk whose increment has not been applied,
\* and the chunk has left the pool before its worker starts.
C28_IncrementBeforeSpawn ==
    /\ \A id \in AllIds :
           wpc[id] # "unspawned" =>
               /\ incs[id] >= 1
               /\ id \notin RangeOf(chunks_remaining)
    /\ cpc = "spawn" =>
           /\ incs[next_chunk] >= 1
           /\ next_chunk \notin RangeOf(chunks_remaining)

C28_Witness ==
    /\ cpc = "poll"
    /\ \E id \in AllIds :
           /\ wpc[id] = "calling"
           /\ incs[id] = 1
           /\ decs[id] = 0
           /\ handles = <<id>>
           /\ active_uploads = 1

\* workers whose thread panicked and which the coordinator has reaped
ReapedCrashed ==
    {id \in AllIds : wpc[id] = "fin_panic" /\ id \notin RangeOf(handles)}

\* workers that returned Err after using up their attempts, reaped
ReapedExhausted ==
    {id \in AllIds : wpc[id] = "fin_err" /\ id \notin RangeOf(handles)}

\* what the chunk's increments and decrements have added to active_uploads
NetChange(id) == incs[id] - decs[id]

\* C29: a worker whose thread panicked is handled like retry exhaustion:
\* once reaped its chunk ID is in the failed set with an error, is not in
\* the successful list, counts toward the termination condition, and has
\* left active_uploads with the same net change as a reaped worker that
\* used up its retries.
C29_CrashHandledLikeExhaustion ==
    cpc # "panicked" =>
        \A p \in ReapedCrashed :
            /\ p \in DOMAIN failed_chunks
            /\ failed_chunks[p].error # ""
            /\ p \notin RangeOf(successful_chunks)
            /\ p \in Recorded
            /\ \A e \in ReapedExhausted : NetChange(p) = NetChange(e)

\* statements of the coordinator's own bookkeeping that run under the
\* tracker guard, and under the pool guard
TrackerSections == {"check_held", "inc_held", "reap_held", "delay_held", "done_held",
                    "report_held"}
PoolSections == {"pool_held", "done_pool_held", "done_held"}

\* no thread holds a mutex across a transfer call or a sleep
NoLockAcrossCallOrSleep ==
    /\ \A id \in AllIds :
          wpc[id] \in {"calling", "sleeping"} =>
              tracker_mutex # id /\ pool_mutex # id
    /\ cpc = "sleep" => tracker_mutex # CoordThread /\ pool_mutex # CoordThread

\* C30: lock discipline.  A worker inside a transfer call or an inter-retry
\* sleep, and the coordinator inside its pacing sleep, holds neither the
\* tracker mutex nor the pool mutex; and whoever holds a mutex is at one of
\* the scheduler's own bookkeeping statements.
C30_LockDiscipline ==
    /\ NoLockAcrossCallOrSleep
    /\ tracker_mutex = CoordThread => cpc \in TrackerSections
    /\ pool_mutex = CoordThread => cpc \in PoolSections
    /\ \A id \in AllIds :
          /\ tracker_mutex = id => wpc[id] \in {"ok_held", "err_held"}
          /\ pool_mutex # id

\* the coordinator is at a lock() call on the tracker mutex / the pool mutex
CoordWaitsTracker ==
    cpc \in {"check_lock", "inc_lock", "reap_lock", "delay_lock", "done_pool_held",
             "report_lock"}
CoordWaitsPool == cpc \in {"pool_lock", "sleep"}

\* a worker is at its lock() call on the tracker mutex
WorkerWaitsTracker(id) == wpc[id] \in {"ok_lock", "err_lock"}

\* the coordinator waits for a mutex this worker holds while the worker
\* waits for a mutex the coordinator holds
CircularWait(id) ==
    /\ \/ CoordWaitsTracker /\ tracker_mutex = id
       \/ CoordWaitsPool /\ pool_mutex = id
    /\ WorkerWaitsTracker(id) /\ tracker_mutex = CoordThread

\* C34: no lock deadlock.  Only the coordinator ever holds the pool mutex
\* and the tracker mutex together, and then it took the pool mutex first;
\* a worker holds the tracker mutex alone and never the pool mutex; no
\* state has the coordinator and a worker waiting for each other.
C34_NoLockDeadlock ==
    /\ pool_mutex \in {MutexFree, CoordThread}
    /\ (tracker_mutex = CoordThread /\ pool_mutex = CoordThread) => cpc = "done_held"
    /\ pool_mutex = CoordThread => cpc \in PoolSections
    /\ \A id \in AllIds : ~CircularWait(id)

\* the coordinator holds both mutexes while a worker waits for the tracker
C34_Witness ==
    /\ cpc = "done_held"
    /\ tracker_mutex = CoordThread
    /\ pool_mutex = CoordThread
    /\ \E id \in AllIds : WorkerWaitsTracker(id)

\* chunk IDs the coordinator has taken from the pool and not yet handed to
\* a thread
InHand == IF next_chunk = NoChunk THEN {} ELSE {next_chunk}

\* C32: every submitted chunk is dispatched to at most one worker.  A chunk
\* is in the pool, in the coordinator's hand or with a worker, never in two
\* of these; it enters a worker at most once; and a chunk still in the pool
\* has no worker and no transfer attempt.
C32_SingleDispatch ==
    /\ NoDuplicates(chunks_remaining)
    /\ NoDuplicates(handles)
    /\ RangeOf(chunks_remaining) \cap InHand = {}
    /\ RangeOf(chunks_remaining) \cap RangeOf(handles) = {}
    /\ InHand \cap RangeOf(handles) = {}
    /\ \A id \in AllIds :
          /\ incs[id] <= 1
          /\ id \in RangeOf(chunks_remaining) =>
                wpc[id] = "unspawned" /\ attempts[id] = 0
          /\ wpc[id] # "unspawned" => id \notin RangeOf(chunks_remaining) \cup InHand

\* two workers run, both with a transfer attempt, while a chunk is pooled
C32_Witness ==
    /\ Len(chunks_remaining) > 0
    /\ Cardinality({id \in AllIds : wpc[id] # "unspawned" /\ attempts[id] >= 1}) >= 2

\* every thread that was spawned has been joined and recorded
AllReaped ==
    /\ Len(handles) = 0
    /\ next_chunk = NoChunk
    /\ \A id \in AllIds : wpc[id] # "unspawned" => IsFinished(id) /\ id \in Recorded

\* sum of ChunkInfo.size over a set of chunk IDs
RECURSIVE SizeSum(_)
SizeSum(S) ==
    IF S = {} THEN 0
    ELSE LET id == CHOOSE x \in S : TRUE IN SizeOf(id) + SizeSum(S \ {id})

\* C33: once the main loop has exited with every worker reaped, the tracker
\* agrees with the coordinator: the IDs in tracker.completed_chunks are the
\* IDs in successful_chunks, each once, and tracker.bytes_uploaded is the
\* sum of the sizes of the successful chunks (nothing for a failed chunk).
C33_TrackerAgreesWithResults ==
    (LoopExited /\ AllReaped) =>
        /\ RangeOf(completed_chunks) = RangeOf(successful_chunks)
        /\ NoDuplicates(completed_chunks)
        /\ NoDuplicates(successful_chunks)
        /\ bytes_uploaded = SizeSum(RangeOf(successful_chunks))
        /\ RangeOf(successful_chunks) \cap DOMAIN failed_chunks = {}

\* the loop has exited, all reaped, with a success and a failure recorded
C33_Witness ==
    /\ LoopExited
    /\ AllReaped
    /\ Len(successful_chunks) >= 1
    /\ DOMAIN failed_chunks # {}
    /\ bytes_uploaded > 0

\* both sessions have ended
BothEnded == hook_mode # "idle" /\ \A r \in Runs : ~RunAlive(r)

\* the two sessions made the same transfer calls for every chunk and ended
\* alike
SameRuns ==
    /\ run_log["installed"] = run_log["absent"]
    /\ run_outcome["installed"] = run_outcome["absent"]
    /\ run_successful["installed"] = run_successful["absent"]
    /\ run_failed["installed"] = run_failed["absent"]

\* C31: the observer hooks do not influence control flow.  For the same
\* chunks, configuration and behaviour of the transfer primitive, the
\* session with the hooks installed and the session without them make the
\* same sequence of transfer attempts for every chunk and end with the same
\* outcome and the same successful and failed sets, in both modes.
C31_HooksDoNotInfluence == BothEnded => SameRuns

TypeOK ==
    /\ active_uploads \in 0 .. (UsizeModulus - 1)
    /\ cpc \in {"idle", "sequential", "entry", "check", "inc", "spawn", "poll", "reap", "delay", "sleep",
                "done_check", "report", "returned", "exited", "panicked"}

====
